---- MODULE Spec2Model ----
(***************************************************************************)
(* A model of the feos thermodynamics engine: the Residual trait of        *)
(* feos-core (composition validation, maximum density, residual Helmholtz  *)
(* energy and its breakdown) and the State binding of feos-core/python     *)
(* (state construction, critical point, spinodal, mass specific getters).  *)
(***************************************************************************)
EXTENDS Integers, Sequences, FiniteSets, TLC

VARIABLES
    eos,        \* the equation of state the calls are made on (immutable)
    op,         \* name of the operation called last ("" before any call)
    arg,        \* the argument of that call
    ret,        \* what the call returned
    calls,      \* the calls the operation made to the model, in order
    total,      \* Option: the last evaluate_residual call, [state, val]
    breakdown,  \* Option: the last evaluate_residual_contributions call
    pc,         \* "ready", "iterating" while a solver runs, then "done"
    run,        \* the solver run of the current or last solver call
    self,       \* Option: the object the methods are called on
    seen        \* Option: an earlier call on self, [op, arg, ret]

vars == <<eos, op, arg, ret, calls, total, breakdown, pc, run, self, seen>>

(***************************************************************************)
(* Bounds of the model.                                                    *)
(***************************************************************************)
MaxComponents == 2      \* component counts 0..MaxComponents
MaxMole == 2            \* mole numbers 1..MaxMole (reduced units)
MaxContribs == 3        \* contribution lists of length 0..MaxContribs
MaxTemp == 2            \* temperatures 1..MaxTemp (reduced units)
MaxIter == 2            \* max_iter arguments 0..MaxIter
MaxGiven == 3           \* at most MaxGiven thermodynamic variables specified
MaxVolume == 3          \* volumes 1..MaxVolume (reduced units)

(***************************************************************************)
(* Option and EosResult values.                                            *)
(***************************************************************************)
None == <<>>
Some(x) == <<x>>
IsSome(o) == Len(o) = 1
Unwrap(o) == o[1]

Ok(v) == [ok |-> TRUE, val |-> v]
Err(e) == [ok |-> FALSE, err |-> e]

IncompatibleComponents(n, l) == [type |-> "IncompatibleComponents", a |-> n, b |-> l]

(***************************************************************************)
(* Quantities.  A quantity is stored in SI units; its reduced value is the *)
(* stored value divided by the reference value of its unit.                *)
(***************************************************************************)
MolesReference == 2
DensityReference == 3

Moles_from_reduced(a) == [i \in 1..Len(a) |-> a[i] * MolesReference]
Moles_to_reduced(m) == [i \in 1..Len(m) |-> m[i] \div MolesReference]
Density_from_reduced(x) == x * DensityReference

ones(n) == [i \in 1..n |-> 1]

RECURSIVE SeqSum(_)
SeqSum(s) == IF s = <<>> THEN 0 ELSE s[1] + SeqSum(Tail(s))

(***************************************************************************)
(* f64 addition, with a mantissa of two bits: the sum is rounded to the    *)
(* nearest representable value, ties to the even mantissa, so that the     *)
(* order of a summation shows in its result.                               *)
(***************************************************************************)
Abs(x) == IF x < 0 THEN -x ELSE x

RECURSIVE Ulp(_)
Ulp(a) == IF a < 4 THEN 1 ELSE 2 * Ulp(a \div 2)

RoundMag(a) ==
    LET u == Ulp(a)
        lo == (a \div u) * u
        r == a - lo
    IN  IF 2 * r < u THEN lo
        ELSE IF 2 * r > u THEN lo + u
        ELSE IF (lo \div u) % 2 = 0 THEN lo ELSE lo + u

FRound(x) == IF x < 0 THEN -RoundMag(-x) ELSE RoundMag(x)

FAdd(a, b) == FRound(a + b)

(***************************************************************************)
(* The models.  NoResidual(n) has no contribution and no molar weight; a   *)
(* parameterised model has a list of contributions, each with a name and   *)
(* a coefficient.                                                          *)
(***************************************************************************)
NoResidual(n) == [kind |-> "NoResidual", n |-> n, contribs |-> <<>>]

Contribution(name, a) == [name |-> name, a |-> a]
ContributionKinds ==
    {Contribution("Hard Sphere", 4), Contribution("Dispersion", 1),
     Contribution("Association", -1)}

Model(n, cs) == [kind |-> "Model", n |-> n, contribs |-> cs]

SeqsUpTo(S, n) == UNION {[1..k -> S] : k \in 0..n}

\* Components::components
components(e) == e.n

\* Residual::contributions
contributions(e) == e.contribs

\* Residual::properties: the temperature dependent bundle of one evaluation
properties(e, temperature) ==
    IF e.kind = "NoResidual" THEN "PhantomData" ELSE temperature

\* HelmholtzEnergyDual::helmholtz_energy of one contribution
helmholtz_energy(c, state, props) == FRound(c.a * props * state.volume)

\* compute_max_density of a parameterised model: a close packing estimate,
\* component i having a segment of size i
packing_max_density(mr) ==
    (12 * SeqSum(mr)) \div SeqSum([i \in 1..Len(mr) |-> mr[i] * i])

\* Residual::compute_max_density
compute_max_density(e, mr) ==
    IF e.kind = "NoResidual" THEN 1 ELSE packing_max_density(mr)

(***************************************************************************)
(* Residual::evaluate_residual: the contributions' energies, summed from   *)
(* zero in the order of the list.                                          *)
(***************************************************************************)
RECURSIVE SumFrom(_, _, _, _)
SumFrom(acc, cs, state, props) ==
    IF cs = <<>> THEN acc
    ELSE SumFrom(FAdd(acc, helmholtz_energy(cs[1], state, props)),
                 Tail(cs), state, props)

evaluate_residual_rev(e, state) ==
    LET cs == contributions(e)
    IN  SumFrom(0, [i \in 1..Len(cs) |-> cs[Len(cs) + 1 - i]], state,
                properties(e, state.temperature))

evaluate_residual(e, state) ==
    SumFrom(0, contributions(e), state, properties(e, state.temperature))

\* Residual::evaluate_residual_contributions
evaluate_residual_contributions(e, state) ==
    LET props == properties(e, state.temperature)
        cs == contributions(e)
    IN  [i \in 1..Len(cs) |->
            <<cs[i].name, helmholtz_energy(cs[i], state, props)>>]

(***************************************************************************)
(* Residual::validate_moles                                                *)
(***************************************************************************)
validate_moles_lenient(e, moles) ==
    LET l == IF IsSome(moles) THEN Len(Unwrap(moles)) ELSE components(e)
    IN  IF components(e) = l
        THEN IF IsSome(moles) THEN Ok(Unwrap(moles))
             ELSE Ok(Moles_from_reduced(ones(1)))
        ELSE Err(IncompatibleComponents(components(e), l))

validate_moles_swapped(e, moles) ==
    LET l == IF IsSome(moles) THEN Len(Unwrap(moles)) ELSE 1
    IN  IF components(e) = l
        THEN IF IsSome(moles) THEN Ok(Unwrap(moles))
             ELSE Ok(Moles_from_reduced(ones(1)))
        ELSE Err(IncompatibleComponents(l, components(e)))

validate_moles_unchecked(e, moles) ==
    IF IsSome(moles) THEN Ok(Unwrap(moles))
    ELSE Ok(Moles_from_reduced(ones(1)))

validate_moles(e, moles) ==
    LET l == IF IsSome(moles) THEN Len(Unwrap(moles)) ELSE 1
    IN  IF components(e) = l
        THEN IF IsSome(moles) THEN Ok(Unwrap(moles))
             ELSE Ok(Moles_from_reduced(ones(1)))
        ELSE Err(IncompatibleComponents(components(e), l))

(***************************************************************************)
(* Residual::max_density, with the calls it makes to compute_max_density.  *)
(***************************************************************************)
max_density_unchecked(e, moles) ==
    LET mr == IF IsSome(moles) THEN Moles_to_reduced(Unwrap(moles)) ELSE ones(1)
    IN  [ret |-> Ok(Density_from_reduced(compute_max_density(e, mr))),
         calls |-> <<mr>>]

max_density(e, moles) ==
    LET v == validate_moles(e, moles)
    IN  IF ~v.ok THEN [ret |-> v, calls |-> <<>>]
        ELSE LET mr == Moles_to_reduced(v.val)
             IN  [ret |-> Ok(Density_from_reduced(compute_max_density(e, mr))),
                  calls |-> <<mr>>]

(***************************************************************************)
(* Inputs.                                                                 *)
(***************************************************************************)
MoleVectors ==
    {Moles_from_reduced(a) : a \in SeqsUpTo(1..MaxMole, MaxComponents + 1)}
MolesArgs == {None} \cup {Some(m) : m \in MoleVectors}

ValidateModels ==
    {NoResidual(n) : n \in 0..MaxComponents}
        \cup {Model(n, <<>>) : n \in 1..MaxComponents}

EvalModels ==
    {NoResidual(1)}
        \cup {Model(1, cs) : cs \in SeqsUpTo(ContributionKinds, MaxContribs)}

StatesHD == [temperature : 1..MaxTemp, volume : 1..2]

\* no solver call has run yet
NoRun == [branches |-> <<>>, i |-> 0, k |-> 0, results |-> <<>>,
          opts |-> None, moles |-> None]

(***************************************************************************)
(* The calls on the Residual trait.                                        *)
(***************************************************************************)
Init ==
    /\ eos \in ValidateModels
    /\ op = ""
    /\ arg = None
    /\ ret = None
    /\ calls = <<>>
    /\ total = None
    /\ breakdown = None
    /\ pc = "ready"
    /\ run = NoRun
    /\ self = None
    /\ seen = None

ValidateMoles ==
    \E moles \in MolesArgs :
        /\ op' = "validate_moles"
        /\ arg' = moles
        /\ ret' = validate_moles(eos, moles)
        /\ calls' = <<>>
        /\ UNCHANGED <<self, seen, eos, total, breakdown, pc, run>>

MaxDensity ==
    \E moles \in MolesArgs :
        LET r == max_density(eos, moles)
        IN  /\ op' = "max_density"
            /\ arg' = moles
            /\ ret' = r.ret
            /\ calls' = r.calls
            /\ UNCHANGED <<self, seen, eos, total, breakdown, pc, run>>

Next == ValidateMoles \/ MaxDensity

Spec == Init /\ [][Next]_vars

(***************************************************************************)
(* The evaluations of the residual Helmholtz energy.                       *)
(***************************************************************************)
EvalInit ==
    /\ eos \in EvalModels
    /\ op = ""
    /\ arg = None
    /\ ret = None
    /\ calls = <<>>
    /\ total = None
    /\ breakdown = None
    /\ pc = "ready"
    /\ run = NoRun
    /\ self = None
    /\ seen = None

EvaluateResidual ==
    \E state \in StatesHD :
        /\ op' = "evaluate_residual"
        /\ total' = Some([state |-> state, val |-> evaluate_residual(eos, state)])
        /\ UNCHANGED <<self, seen, eos, arg, ret, calls, breakdown, pc, run>>

EvaluateResidualContributions ==
    \E state \in StatesHD :
        /\ op' = "evaluate_residual_contributions"
        /\ breakdown' =
               Some([state |-> state,
                     val |-> evaluate_residual_contributions(eos, state)])
        /\ UNCHANGED <<self, seen, eos, arg, ret, calls, total, pc, run>>

EvalNext == EvaluateResidual \/ EvaluateResidualContributions

EvalSpec == EvalInit /\ [][EvalNext]_vars

(***************************************************************************)
(* The State binding: Python values, errors and the wrapped State.         *)
(***************************************************************************)
PyStr(v) == [py |-> "str", s |-> v]
PyQuantity(unit, v) == [py |-> "SINumber", unit |-> unit, v |-> v]
PyInt(v) == [py |-> "int", i |-> v]

\* Bound<PyAny>::extract::<String>
extract_String(o) == IF o.py = "str" THEN Ok(o.s) ELSE Err("TypeError")

\* Bound<PyAny>::extract::<Density>, ::<Temperature>, ::<Pressure>
extract_Quantity(o, unit) ==
    IF o.py = "SINumber" /\ o.unit = unit THEN Ok(o.v) ELSE Err("TypeError")

PyValueError(msg) == [type |-> "PyValueError", msg |-> msg]

\* the ? operator on an EosResult inside a PyResult function
PyErr_from(e) == [type |-> "PyErr", cause |-> e]

PyState(s) == [class |-> "State", state |-> s]

\* DensityInitialization
DensityInitialization_None == [hint |-> "None"]
Vapor == [hint |-> "Vapor"]
Liquid == [hint |-> "Liquid"]
InitialDensity(d) == [hint |-> "InitialDensity", rho |-> d]

(***************************************************************************)
(* PyState::new, the density_init block: the hint of the                   *)
(* density_initialization argument.                                        *)
(***************************************************************************)
density_init_default(di) ==
    IF IsSome(di)
    THEN LET o == Unwrap(di)
         IN  IF extract_String(o).ok
             THEN IF extract_String(o).val = "vapor" THEN Ok(Vapor)
                  ELSE IF extract_String(o).val = "liquid" THEN Ok(Liquid)
                  ELSE Ok(DensityInitialization_None)
             ELSE IF extract_Quantity(o, "Density").ok
             THEN Ok(InitialDensity(extract_Quantity(o, "Density").val))
             ELSE Ok(DensityInitialization_None)
    ELSE Ok(DensityInitialization_None)

density_init_absent_vapor(di) ==
    IF IsSome(di)
    THEN LET o == Unwrap(di)
         IN  IF extract_String(o).ok
             THEN IF extract_String(o).val = "vapor" THEN Ok(Vapor)
                  ELSE IF extract_String(o).val = "liquid" THEN Ok(Liquid)
                  ELSE Err(PyValueError(
                           "density_initialization must be vapor or liquid."))
             ELSE IF extract_Quantity(o, "Density").ok
             THEN Ok(InitialDensity(extract_Quantity(o, "Density").val))
             ELSE Err(PyValueError(
                      "density_initialization must be vapor or liquid or a molar density"))
    ELSE Ok(Vapor)

density_init(di) ==
    IF IsSome(di)
    THEN LET o == Unwrap(di)
         IN  IF extract_String(o).ok
             THEN IF extract_String(o).val = "vapor" THEN Ok(Vapor)
                  ELSE IF extract_String(o).val = "liquid" THEN Ok(Liquid)
                  ELSE Err(PyValueError(
                           "density_initialization must be vapor or liquid."))
             ELSE IF extract_Quantity(o, "Density").ok
             THEN Ok(InitialDensity(extract_Quantity(o, "Density").val))
             ELSE Err(PyValueError(
                      "density_initialization must be vapor or liquid or a molar density"))
    ELSE Ok(DensityInitialization_None)

(***************************************************************************)
(* The solvers of feos-core.  A solver call validates its request and then *)
(* runs one Newton iteration per branch, each with the budget max_iter and *)
(* the tolerance tol of the solver options.                                *)
(***************************************************************************)
DefaultMaxIter == 2
DefaultTol == 1
Residuals == 0..2
Tolerances == 1..2

\* SolverOptions::from((max_iter, tol, verbosity))
SolverOptions_from(max_iter, tol) ==
    [max_iter |-> IF IsSome(max_iter) THEN Unwrap(max_iter) ELSE DefaultMaxIter,
     tol |-> IF IsSome(tol) THEN Unwrap(tol) ELSE DefaultTol]

IterationFailure == [type |-> "IterationFailure"]
DomainError == [type |-> "DomainError"]
InconsistentSpecification == [type |-> "InconsistentSpecification"]

State(t, v, n) == [temperature |-> t, volume |-> v, moles |-> n]

\* total Helmholtz energy of a state
free_energy(s) == Abs(s.volume - SeqSum(Moles_to_reduced(s.moles)))

ThermoVariables ==
    {"temperature", "volume", "density", "pressure", "molar_enthalpy",
     "molar_entropy", "molar_internal_energy"}

\* which kind of request the specified variables make
classify(given) ==
    IF Cardinality(given) # 2 \/ given = {"volume", "density"}
    THEN "inconsistent"
    ELSE IF "temperature" \in given /\ given \cap {"volume", "density"} # {}
    THEN "direct"
    ELSE "iterate"

\* the starts the density iteration is run from
start_branches(hint) ==
    IF hint = DensityInitialization_None THEN <<"vapor", "liquid">>
    ELSE IF hint = Vapor THEN <<"vapor">>
    ELSE IF hint = Liquid THEN <<"liquid">>
    ELSE <<"initial density">>

Finished(r) == [done |-> TRUE, ret |-> r]
Iterating(branches, n) == [done |-> FALSE, branches |-> branches, moles |-> n]

\* State::new_full up to the first iteration
new_full(e, a, hint) ==
    LET n == validate_moles(e, a.moles)
    IN  IF ~n.ok THEN Finished(n)
        ELSE IF classify(a.given) = "inconsistent"
        THEN Finished(Err(InconsistentSpecification))
        ELSE IF classify(a.given) = "direct"
        THEN Finished(Ok(State(1, 1, n.val)))
        ELSE Iterating(start_branches(hint), n.val)

\* State::critical_point up to the first iteration
critical_point_core(e, moles) ==
    LET n == validate_moles(e, moles)
    IN  IF ~n.ok THEN Finished(n) ELSE Iterating(<<"critical point">>, n.val)

\* State::spinodal up to the first iteration
spinodal_core(e, moles) ==
    LET n == validate_moles(e, moles)
    IN  IF ~n.ok THEN Finished(n)
        ELSE Iterating(<<"low density", "high density">>, n.val)

\* State::critical_point_binary up to the first iteration
critical_point_binary_core(e, fixed) ==
    Iterating(<<fixed>>, Moles_from_reduced(ones(components(e))))

(***************************************************************************)
(* What a solver call returns once its branches have run.  results holds   *)
(* one EosResult per branch that ran.                                      *)
(***************************************************************************)
\* state construction from two starts: the state of lower free energy
select_branch(results) ==
    IF Len(results) = 1 THEN {results[1]}
    ELSE LET v == results[1]
             l == results[2]
         IN  IF v.ok /\ l.ok
             THEN IF v.val = l.val THEN {v}
                  ELSE IF free_energy(v.val) < free_energy(l.val) THEN {v}
                  ELSE IF free_energy(l.val) < free_energy(v.val) THEN {l}
                  ELSE {v, l}
             ELSE IF v.ok THEN {v}
             ELSE IF l.ok THEN {l}
             ELSE {v, l}

\* spinodal: both roots, or the first failure
both_branches(results) ==
    IF ~results[Len(results)].ok THEN {results[Len(results)]}
    ELSE {Ok(<<results[1].val, results[2].val>>)}

(***************************************************************************)
(* The return statements of the binding: errors propagate through ?, a     *)
(* state is wrapped into a PyState.                                        *)
(***************************************************************************)
PyState_new_return(r) ==
    IF r.ok THEN Ok(PyState(r.val)) ELSE Err(PyErr_from(r.err))

critical_point_return_lossy(r) ==
    IF r.ok THEN Ok(PyState(r.val)) ELSE Ok(PyState(State(0, 0, <<>>)))

critical_point_return(r) ==
    IF r.ok THEN Ok(PyState(r.val)) ELSE Err(PyErr_from(r.err))

critical_point_binary_return(r) ==
    IF r.ok THEN Ok(PyState(r.val)) ELSE Err(PyErr_from(r.err))

spinodal_return_lossy(r) ==
    IF r.ok THEN Ok(<<PyState(r.val[1]), PyState(r.val[2])>>)
    ELSE Ok(<<PyState(State(0, 0, <<>>)), PyState(State(0, 0, <<>>))>>)

spinodal_return_single(r) ==
    IF r.ok THEN Ok(<<PyState(r.val[1])>>)
    ELSE Err(PyErr_from(r.err))

spinodal_return(r) ==
    IF r.ok THEN Ok(<<PyState(r.val[1]), PyState(r.val[2])>>)
    ELSE Err(PyErr_from(r.err))

call_outcomes(o, results) ==
    IF o = "State.new"
    THEN {PyState_new_return(r) : r \in select_branch(results)}
    ELSE IF o = "State.critical_point"
    THEN {critical_point_return(results[1])}
    ELSE IF o = "State.critical_point_binary"
    THEN {critical_point_binary_return(results[1])}
    ELSE {spinodal_return(r) : r \in both_branches(results)}

(***************************************************************************)
(* Inputs of the binding.                                                  *)
(***************************************************************************)
GivenSets == {g \in SUBSET ThermoVariables : Cardinality(g) <= MaxGiven}

SolverMoles ==
    {None} \cup
    {Some(Moles_from_reduced(a)) :
        a \in {b \in SeqsUpTo(1..MaxMole, MaxComponents + 1) :
                  Len(b) >= 1 /\ \A i \in 2..Len(b) : b[i] = 1}}

DensityInitArgs ==
    {None} \cup
    {Some(PyStr(x)) : x \in {"vapor", "liquid", "Vapor", "gas"}} \cup
    {Some(PyQuantity("Density", 1)), Some(PyQuantity("Temperature", 1)),
     Some(PyInt(1))}

NewArgs ==
    [given : GivenSets, moles : SolverMoles,
     density_initialization : DensityInitArgs]

MaxIterArgs == {None} \cup {Some(n) : n \in 0..MaxIter}
TolArgs == {None} \cup {Some(t) : t \in Tolerances}

CriticalPointArgs == [moles : SolverMoles, max_iter : MaxIterArgs, tol : TolArgs]

TemperatureOrPressureArgs ==
    {PyQuantity("Temperature", 1), PyQuantity("Pressure", 1),
     PyQuantity("Density", 1), PyInt(1)}

BinaryArgs ==
    [temperature_or_pressure : TemperatureOrPressureArgs,
     initial_temperature : {None, Some(1)},
     initial_molefracs : {None, Some(<<1, 1>>)},
     max_iter : MaxIterArgs, tol : TolArgs]

SolverModels ==
    {NoResidual(1),
     Model(1, <<Contribution("Hard Sphere", 4)>>),
     Model(2, <<Contribution("Hard Sphere", 4), Contribution("Dispersion", 1)>>)}

(***************************************************************************)
(* The calls of the binding.  A call that needs no iteration returns in    *)
(* one step; otherwise it starts the run of its first branch.  No state    *)
(* persists from one call to the next (the model is immutable), so a       *)
(* behaviour is one call, from "ready" to "done".                          *)
(***************************************************************************)
SolverInit ==
    /\ eos \in SolverModels
    /\ op = ""
    /\ arg = None
    /\ ret = None
    /\ calls = <<>>
    /\ total = None
    /\ breakdown = None
    /\ pc = "ready"
    /\ run = NoRun
    /\ self = None
    /\ seen = None

\* the core function has been entered with request r and options o
Enter(o, r, opts) ==
    IF r.done
    THEN /\ ret' \in call_outcomes(o, <<r.ret>>)
         /\ pc' = "done"
         /\ run' = NoRun
    ELSE /\ ret' = None
         /\ pc' = "iterating"
         /\ run' = [branches |-> r.branches, i |-> 1, k |-> 0,
                    results |-> <<>>, opts |-> Some(opts), moles |-> Some(r.moles)]

\* PyState::new
PyStateNew ==
    /\ pc = "ready"
    /\ \E a \in NewArgs :
        LET di == density_init(a.density_initialization)
        IN  /\ op' = "State.new"
            /\ arg' = a
            /\ IF ~di.ok
               THEN /\ ret' = di
                    /\ calls' = <<>>
                    /\ pc' = "done"
                    /\ run' = NoRun
               ELSE /\ calls' = <<[fn |-> "State::new_full", hint |-> di.val]>>
                    /\ Enter("State.new", new_full(eos, a, di.val),
                             SolverOptions_from(None, None))
    /\ UNCHANGED <<self, seen, eos, total, breakdown>>

\* PyState::critical_point
PyCriticalPoint ==
    /\ pc = "ready"
    /\ \E a \in CriticalPointArgs :
        /\ op' = "State.critical_point"
        /\ arg' = a
        /\ calls' = <<[fn |-> "State::critical_point"]>>
        /\ Enter("State.critical_point", critical_point_core(eos, a.moles),
                 SolverOptions_from(a.max_iter, a.tol))
    /\ UNCHANGED <<self, seen, eos, total, breakdown>>

\* PyState::critical_point_binary: the branch taken for a value, the
\* extraction of a Temperature is tried before that of a Pressure
critical_point_binary_swapped(tp) ==
    IF extract_Quantity(tp, "Temperature").ok THEN "pressure"
    ELSE IF extract_Quantity(tp, "Pressure").ok THEN "temperature"
    ELSE "neither"

critical_point_binary_branch(tp) ==
    IF extract_Quantity(tp, "Temperature").ok THEN "temperature"
    ELSE IF extract_Quantity(tp, "Pressure").ok THEN "pressure"
    ELSE "neither"

\* the arguments State::critical_point_binary is called with
critical_point_binary_call(a, fixed) ==
    [fn |-> "State::critical_point_binary",
     fixed |-> fixed,
     value |-> a.temperature_or_pressure.v,
     initial_temperature |-> a.initial_temperature,
     initial_molefracs |-> a.initial_molefracs,
     options |-> SolverOptions_from(a.max_iter, a.tol)]

\* PyState::critical_point_binary
PyCriticalPointBinary ==
    /\ pc = "ready"
    /\ \E a \in BinaryArgs :
        LET branch == critical_point_binary_branch(a.temperature_or_pressure)
        IN  /\ op' = "State.critical_point_binary"
            /\ arg' = a
            /\ IF branch = "temperature"
               THEN /\ calls' = <<critical_point_binary_call(a, "temperature")>>
                    /\ Enter("State.critical_point_binary",
                             critical_point_binary_core(eos, "fixed temperature"),
                             SolverOptions_from(a.max_iter, a.tol))
               ELSE IF branch = "pressure"
               THEN /\ calls' = <<critical_point_binary_call(a, "pressure")>>
                    /\ Enter("State.critical_point_binary",
                             critical_point_binary_core(eos, "fixed pressure"),
                             SolverOptions_from(a.max_iter, a.tol))
               ELSE /\ ret' = Err(PyValueError("Wrong units! Expected K or Pa"))
                    /\ calls' = <<>>
                    /\ pc' = "done"
                    /\ run' = NoRun
    /\ UNCHANGED <<self, seen, eos, total, breakdown>>

\* PyState::spinodal
PySpinodal ==
    /\ pc = "ready"
    /\ \E a \in CriticalPointArgs :
        /\ op' = "State.spinodal"
        /\ arg' = a
        /\ calls' = <<[fn |-> "State::spinodal"]>>
        /\ Enter("State.spinodal", spinodal_core(eos, a.moles),
                 SolverOptions_from(a.max_iter, a.tol))
    /\ UNCHANGED <<self, seen, eos, total, breakdown>>

(***************************************************************************)
(* The Newton iteration of the running branch.                             *)
(***************************************************************************)
Budget == Unwrap(run.opts).max_iter
Tol == Unwrap(run.opts).tol

\* the running branch has ended with result r
FinishBranch(r) ==
    LET results == Append(run.results, r)
    IN  /\ IF (op # "State.new" /\ ~r.ok) \/ run.i = Len(run.branches)
           THEN /\ ret' \in call_outcomes(op, results)
                /\ pc' = "done"
                /\ run' = [run EXCEPT !.results = results]
           ELSE /\ ret' = ret
                /\ pc' = "iterating"
                /\ run' = [run EXCEPT !.results = results, !.i = @ + 1, !.k = 0]
        /\ UNCHANGED <<self, seen, eos, op, arg, calls, total, breakdown>>

\* a step that leaves the residual at or above the tolerance
Iterate ==
    /\ pc = "iterating"
    /\ run.k < Budget
    /\ \E r \in Residuals : r >= Tol
    /\ run' = [run EXCEPT !.k = @ + 1]
    /\ UNCHANGED <<self, seen, eos, op, arg, ret, calls, total, breakdown, pc>>

\* a step that brings the residual below the tolerance
Converge ==
    /\ pc = "iterating"
    /\ run.k < Budget
    /\ \E r \in Residuals, v \in 1..MaxVolume :
        /\ r < Tol
        /\ FinishBranch(Ok(State(1, v, Unwrap(run.moles))))

\* a step that leaves the physical domain and cannot be recovered
DomainFailure ==
    /\ pc = "iterating"
    /\ run.k < Budget
    /\ FinishBranch(Err(DomainError))

\* the budget is used up
Exhaust ==
    /\ pc = "iterating"
    /\ run.k >= Budget
    /\ FinishBranch(Err(IterationFailure))

SolverStep == Iterate \/ Converge \/ DomainFailure \/ Exhaust

SolverNext ==
    \/ PyStateNew
    \/ PyCriticalPoint
    \/ PyCriticalPointBinary
    \/ PySpinodal
    \/ Iterate
    \/ Converge
    \/ DomainFailure
    \/ Exhaust

SolverSpec == SolverInit /\ [][SolverNext]_vars

FairSolverSpec == SolverSpec /\ WF_vars(SolverStep)

(***************************************************************************)
(* C1: validate_moles without moles succeeds if and only if the model has  *)
(* exactly one component, and then returns the one-element vector [1] in   *)
(* reduced units; for every other component count it returns the           *)
(* component-count-mismatch error.                                         *)
(***************************************************************************)
C1_NoneIffPure ==
    (op = "validate_moles" /\ arg = None) =>
        /\ ret.ok <=> components(eos) = 1
        /\ ret.ok => Moles_to_reduced(ret.val) = <<1>>
        /\ ~ret.ok => ret.err = IncompatibleComponents(components(eos), 1)

C1_Witness ==
    op = "validate_moles" /\ arg = None /\ ret.ok /\ components(eos) = 1

(***************************************************************************)
(* C2: validate_moles with a supplied vector fails with                    *)
(* IncompatibleComponents(component count, supplied length) whenever the   *)
(* length differs from the component count, and otherwise returns exactly  *)
(* the supplied vector.                                                    *)
(***************************************************************************)
C2_SuppliedMoles ==
    (op = "validate_moles" /\ IsSome(arg)) =>
        LET m == Unwrap(arg)
        IN  IF Len(m) # components(eos)
            THEN /\ ~ret.ok
                 /\ ret.err.type = "IncompatibleComponents"
                 /\ ret.err.a = components(eos)
                 /\ ret.err.b = Len(m)
            ELSE /\ ret.ok
                 /\ Len(ret.val) = Len(m)
                 /\ \A i \in 1..Len(m) : ret.val[i] = m[i]

C2_Witness ==
    /\ op = "validate_moles" /\ IsSome(arg)
    /\ components(eos) = 2 /\ Len(Unwrap(arg)) = 3
    /\ ~ret.ok

(***************************************************************************)
(* C4: max_density validates the composition first: on a mismatch it       *)
(* returns the component-count-mismatch error and compute_max_density is   *)
(* not called; otherwise compute_max_density is called once, on the        *)
(* validated composition in reduced units, and its value is the result.    *)
(***************************************************************************)
SuppliedLength == IF IsSome(arg) THEN Len(Unwrap(arg)) ELSE 1

C4_MaxDensityValidatesFirst ==
    op = "max_density" =>
        IF SuppliedLength # components(eos)
        THEN /\ ret = Err(IncompatibleComponents(components(eos), SuppliedLength))
             /\ calls = <<>>
        ELSE LET mr == IF IsSome(arg)
                       THEN [i \in 1..SuppliedLength |->
                                Unwrap(arg)[i] \div MolesReference]
                       ELSE <<1>>
             IN  /\ calls = <<mr>>
                 /\ ret = Ok(compute_max_density(eos, mr) * DensityReference)

C4_Witness ==
    /\ op = "max_density" /\ IsSome(arg)
    /\ SuppliedLength # components(eos)
    /\ ~ret.ok /\ calls = <<>>

(***************************************************************************)
(* C3: the total of evaluate_residual is the sum, in declaration order, of *)
(* the values of evaluate_residual_contributions for the same state; the   *)
(* breakdown has one (name, value) entry per contribution, in declaration  *)
(* order.                                                                  *)
(***************************************************************************)
RECURSIVE OrderedSum(_, _)
OrderedSum(entries, k) ==
    IF k = 0 THEN 0 ELSE FAdd(OrderedSum(entries, k - 1), entries[k][2])

C3_TotalIsOrderedSum ==
    /\ IsSome(breakdown) =>
           LET b == Unwrap(breakdown).val
           IN  /\ Len(b) = Len(contributions(eos))
               /\ \A i \in 1..Len(b) : b[i][1] = contributions(eos)[i].name
    /\ (IsSome(total) /\ IsSome(breakdown)
            /\ Unwrap(total).state = Unwrap(breakdown).state) =>
           Unwrap(total).val =
               OrderedSum(Unwrap(breakdown).val, Len(Unwrap(breakdown).val))

C3_Witness ==
    /\ IsSome(total) /\ IsSome(breakdown)
    /\ Unwrap(total).state = Unwrap(breakdown).state
    /\ op = "evaluate_residual"
    /\ Len(Unwrap(breakdown).val) = 3
    /\ Unwrap(total).val # evaluate_residual_rev(eos, Unwrap(total).state)

(***************************************************************************)
(* Mass specific properties of states and of lists of states.              *)
(***************************************************************************)
MaxVec == 2

\* a Rust panic, raised in Python as a PanicException
Panic(msg) == [ok |-> FALSE, panic |-> msg]

\* molar weights of the components of a model that has them
model_molar_weight(e) == [i \in 1..components(e) |-> i + 1]

has_molar_weight(e) == e.kind # "NoResidual"

\* Residual::molar_weight
molar_weight(e) ==
    IF e.kind = "NoResidual"
    THEN Panic("No mass specific properties are available for this model!")
    ELSE Ok(model_molar_weight(e))

\* a State together with the model it was built for (its eos field)
StateWithEos(e, t) ==
    [eos |-> e, state |-> State(t, 1, Moles_from_reduced(ones(components(e))))]

\* mass of each component in a state
ComponentMasses(s, mw) == [i \in 1..Len(mw) |-> s.state.moles[i] * mw[i]]

\* State::mass_density
State_mass_density(s) ==
    LET mw == molar_weight(s.eos)
    IN  IF ~mw.ok THEN mw
        ELSE Ok(SeqSum(ComponentMasses(s, mw.val)) \div s.state.volume)

\* State::massfracs, in percent
State_massfracs(s) ==
    LET mw == molar_weight(s.eos)
    IN  IF ~mw.ok THEN mw
        ELSE Ok([i \in 1..Len(mw.val) |->
                    (100 * ComponentMasses(s, mw.val)[i])
                        \div SeqSum(ComponentMasses(s, mw.val))])

\* State::specific_entropy
State_specific_entropy(s) ==
    LET mw == molar_weight(s.eos)
    IN  IF ~mw.ok THEN mw
        ELSE Ok((10 * s.state.temperature) \div SeqSum(mw.val))

\* StateVec::mass_density, massfracs, specific_entropy: the property of
\* every state of the list, in order
StateVec_property(prop, states) ==
    LET p(s) == CASE prop = "mass_density" -> State_mass_density(s)
                  [] prop = "massfracs" -> State_massfracs(s)
                  [] prop = "specific_entropy" -> State_specific_entropy(s)
    IN  IF \E i \in 1..Len(states) : ~p(states[i]).ok
        THEN p(states[CHOOSE i \in 1..Len(states) :
                   /\ ~p(states[i]).ok
                   /\ \A j \in 1..(i - 1) : p(states[j]).ok])
        ELSE Ok([i \in 1..Len(states) |-> p(states[i]).val])

\* PyState::mass_density
PyState_mass_density(s) == State_mass_density(s)

\* PyState::massfracs
PyState_massfracs(s) == State_massfracs(s)

\* PyStateVec::specific_entropy
PyStateVec_specific_entropy(states) ==
    StateVec_property("specific_entropy", states)

get_mass_density_unguarded(states) ==
    IF states = <<>> THEN Panic("index out of bounds")
    ELSE LET r == StateVec_property("mass_density", states)
         IN  IF r.ok THEN Ok(Some(r.val)) ELSE r

\* PyStateVec::get_mass_density
get_mass_density(states) ==
    IF states = <<>> THEN Panic("index out of bounds")
    ELSE IF has_molar_weight(states[1].eos)
    THEN LET r == StateVec_property("mass_density", states)
         IN  IF r.ok THEN Ok(Some(r.val)) ELSE r
    ELSE Ok(None)

\* PyStateVec::get_massfracs
get_massfracs(states) ==
    IF states = <<>> THEN Panic("index out of bounds")
    ELSE IF has_molar_weight(states[1].eos)
    THEN LET r == StateVec_property("massfracs", states)
         IN  IF r.ok THEN Ok(Some(r.val)) ELSE r
    ELSE Ok(None)

\* the lists of states PyStateVec::new is given
VecStates == {StateWithEos(e, t) : e \in SolverModels, t \in 1..MaxTemp}
StateVecs == SeqsUpTo(VecStates, MaxVec)

MassInit == SolverInit

PyStateMassDensity ==
    /\ pc = "ready"
    /\ \E t \in 1..MaxTemp :
        /\ op' = "State.mass_density"
        /\ arg' = StateWithEos(eos, t)
        /\ ret' = PyState_mass_density(StateWithEos(eos, t))
    /\ pc' = "done"
    /\ UNCHANGED <<self, seen, eos, calls, total, breakdown, run>>

PyStateMassfracs ==
    /\ pc = "ready"
    /\ \E t \in 1..MaxTemp :
        /\ op' = "State.massfracs"
        /\ arg' = StateWithEos(eos, t)
        /\ ret' = PyState_massfracs(StateWithEos(eos, t))
    /\ pc' = "done"
    /\ UNCHANGED <<self, seen, eos, calls, total, breakdown, run>>

PyStateVecSpecificEntropy ==
    /\ pc = "ready"
    /\ \E states \in StateVecs :
        /\ op' = "StateVec.specific_entropy"
        /\ arg' = states
        /\ ret' = PyStateVec_specific_entropy(states)
    /\ pc' = "done"
    /\ UNCHANGED <<self, seen, eos, calls, total, breakdown, run>>

PyStateVecGetMassDensity ==
    /\ pc = "ready"
    /\ \E states \in StateVecs :
        /\ op' = "StateVec.mass_density"
        /\ arg' = states
        /\ ret' = get_mass_density(states)
    /\ pc' = "done"
    /\ UNCHANGED <<self, seen, eos, calls, total, breakdown, run>>

PyStateVecGetMassfracs ==
    /\ pc = "ready"
    /\ \E states \in StateVecs :
        /\ op' = "StateVec.massfracs"
        /\ arg' = states
        /\ ret' = get_massfracs(states)
    /\ pc' = "done"
    /\ UNCHANGED <<self, seen, eos, calls, total, breakdown, run>>

\* Residual::molar_weight, called on the model itself
MolarWeight ==
    /\ pc = "ready"
    /\ op' = "Residual.molar_weight"
    /\ arg' = None
    /\ ret' = molar_weight(eos)
    /\ pc' = "done"
    /\ UNCHANGED <<self, seen, eos, calls, total, breakdown, run>>

(***************************************************************************)
(* Indexing a StateVec.  isize and usize have IsizeBits bits.              *)
(***************************************************************************)
IsizeBits == 4
isize == (0 - 2 ^ (IsizeBits - 1))..(2 ^ (IsizeBits - 1) - 1)

\* i as usize
as_usize(i) == i % (2 ^ IsizeBits)

PyIndexError(msg) == [type |-> "PyIndexError", msg |-> msg]

\* self.0[u].clone()
StateVec_index(states, u) ==
    IF u + 1 \in DOMAIN states THEN Ok(PyState(states[u + 1]))
    ELSE Panic("index out of bounds")

PyStateVec_getitem_signed(states, idx) ==
    LET i == IF idx < 0 THEN Len(states) + idx ELSE idx
    IN  IF i < Len(states) THEN StateVec_index(states, as_usize(i))
        ELSE Err(PyIndexError("StateVec index out of range"))

\* PyStateVec::__getitem__
PyStateVec_getitem(states, idx) ==
    LET i == IF idx < 0 THEN Len(states) + idx ELSE idx
    IN  IF as_usize(i) \in 0..(Len(states) - 1)
        THEN StateVec_index(states, as_usize(i))
        ELSE Err(PyIndexError("StateVec index out of range"))

PyStateVecGetItem ==
    /\ pc = "ready"
    /\ \E states \in StateVecs, idx \in isize :
        /\ op' = "StateVec.__getitem__"
        /\ arg' = [states |-> states, idx |-> idx]
        /\ ret' = PyStateVec_getitem(states, idx)
    /\ pc' = "done"
    /\ UNCHANGED <<self, seen, eos, calls, total, breakdown, run>>

MassNext ==
    \/ MolarWeight
    \/ PyStateMassDensity
    \/ PyStateMassfracs
    \/ PyStateVecSpecificEntropy
    \/ PyStateVecGetMassDensity
    \/ PyStateVecGetMassfracs
    \/ PyStateVecGetItem

MassSpec == MassInit /\ [][MassNext]_vars

(***************************************************************************)
(* Queries on a constructed State.  A behaviour starts with self holding a *)
(* State built from (T, V, n); every action is one method call on it.      *)
(***************************************************************************)
RECURSIVE GCD(_, _)
GCD(a, b) == IF b = 0 THEN a ELSE GCD(b, a % b)

\* the quotient n / d of two quantities, d > 0
Frac(n, d) == [num |-> n \div GCD(n, d), den |-> d \div GCD(n, d)]

\* State::new_nvt: the owned triple and the quantities derived from it
new_nvt(e, t, v, n) ==
    [eos |-> e, temperature |-> t, volume |-> v, moles |-> n,
     total_moles |-> SeqSum(n),
     partial_density |-> [i \in 1..Len(n) |-> Frac(n[i], v)],
     density |-> Frac(SeqSum(n), v),
     molefracs |-> [i \in 1..Len(n) |-> Frac(n[i], SeqSum(n))]]

\* Contributions
Contributions == {"Total", "Residual", "IdealGas"}

\* the ideal gas and the residual part of a property
ideal_gas_part(s) == s.total_moles * s.temperature
residual_part(s) ==
    SeqSum([i \in 1..Len(contributions(s.eos)) |-> contributions(s.eos)[i].a])
        * s.total_moles

filtered(ideal, residual, c) ==
    CASE c = "IdealGas" -> ideal
      [] c = "Residual" -> residual
      [] c = "Total" -> ideal + residual

\* State::pressure
State_pressure(s, c) ==
    Frac(filtered(ideal_gas_part(s), residual_part(s), c) + 100, s.volume)

\* State::molar_entropy
State_molar_entropy(s, c) ==
    Frac(filtered(s.temperature + s.volume, 50 - residual_part(s), c),
         s.total_moles)

\* State::partial_molar_volume
State_partial_molar_volume(s) ==
    [i \in 1..Len(s.moles) |-> Frac(s.volume, s.total_moles)]

\* State::joule_thomson
State_joule_thomson(s) ==
    Frac(residual_part(s) + s.volume, ideal_gas_part(s) + residual_part(s))

\* tangent plane distance of the trial phase rich in component i
tangent_plane_distance(s, i) ==
    s.temperature + s.moles[i] - s.volume - Len(contributions(s.eos))

Unstable(s, opts) ==
    {i \in 1..Len(s.moles) : tangent_plane_distance(s, i) < 0 - opts.tol}

\* the trial state rich in component i
trial_state(s, i) ==
    new_nvt(s.eos, s.temperature, s.volume,
            [j \in 1..Len(s.moles) |-> IF j = i THEN s.moles[j] + 1 ELSE s.moles[j]])

RECURSIVE trial_states(_, _, _)
trial_states(s, opts, i) ==
    IF i > Len(s.moles) THEN <<>>
    ELSE IF i \in Unstable(s, opts)
    THEN <<trial_state(s, i)>> \o trial_states(s, opts, i + 1)
    ELSE trial_states(s, opts, i + 1)

\* State::stability_analysis
State_stability_analysis(s, opts) ==
    IF opts.max_iter = 0 THEN Err(IterationFailure)
    ELSE IF Unstable(s, opts) = {} THEN Ok(<<s>>)
    ELSE Ok(trial_states(s, opts, 1))

\* State::is_stable
State_is_stable(s, opts) ==
    IF opts.max_iter = 0 THEN Err(IterationFailure)
    ELSE Ok(Unstable(s, opts) = {})

contributions_or_residual(c) == IF IsSome(c) THEN Unwrap(c) ELSE "Residual"

\* #[pyo3(signature = (contributions=Contributions::Total))]
contributions_or_default(c) == IF IsSome(c) THEN Unwrap(c) ELSE "Total"

\* PyState::pressure
PyState_pressure(s, c) == State_pressure(s, c)

\* PyState::molar_entropy
PyState_molar_entropy(s, c) == State_molar_entropy(s, c)

\* PyState::partial_molar_volume
PyState_partial_molar_volume(s) == State_partial_molar_volume(s)

\* PyState::joule_thomson
PyState_joule_thomson(s) == State_joule_thomson(s)

\* PyState::stability_analysis
PyState_stability_analysis(s, max_iter, tol) ==
    LET r == State_stability_analysis(s, SolverOptions_from(max_iter, tol))
    IN  IF r.ok THEN Ok([i \in 1..Len(r.val) |-> PyState(r.val[i])])
        ELSE Err(PyErr_from(r.err))

PyState_is_stable_inverted(s, max_iter, tol) ==
    LET r == State_is_stable(s, SolverOptions_from(max_iter, tol))
    IN  IF r.ok THEN Ok(~r.val) ELSE Err(PyErr_from(r.err))

\* PyState::is_stable
PyState_is_stable(s, max_iter, tol) ==
    LET r == State_is_stable(s, SolverOptions_from(max_iter, tol))
    IN  IF r.ok THEN Ok(r.val) ELSE Err(PyErr_from(r.err))

\* the getters of PyState
PyState_get_total_moles(s) == s.total_moles
PyState_get_temperature(s) == s.temperature
PyState_get_volume(s) == s.volume
PyState_get_density_partial(s) == s.partial_density[1]
PyState_get_density(s) == s.density
PyState_get_moles(s) == s.moles
PyState_get_partial_density(s) == s.partial_density
PyState_get_molefracs(s) == s.molefracs

mutable_borrow(o) ==
    Some(PyState([Unwrap(o).state EXCEPT !.temperature = 0]))

\* the receiver of a method that takes &self, after the call
shared_borrow(o) == o

\* the states a PyState is built from directly
QueryStates(e) ==
    {new_nvt(e, t, v, n) :
        t \in 1..MaxTemp, v \in {1, MaxVolume},
        n \in [1..components(e) -> 1..MaxMole]}

ContributionsArgs == {None} \cup {Some(c) : c \in Contributions}

StabilityArgs == [max_iter : {None, Some(0)}, tol : {None, Some(0)}]

QueryInit ==
    /\ eos \in SolverModels
    /\ self \in {Some(PyState(s)) : s \in QueryStates(eos)}
    /\ seen = None
    /\ op = ""
    /\ arg = None
    /\ ret = None
    /\ calls = <<>>
    /\ total = None
    /\ breakdown = None
    /\ pc = "ready"
    /\ run = NoRun

Receiver == Unwrap(self).state

\* one method call on self: what it was given, what it answered and which
\* call to the State it made; the call may be kept in seen for later
Query(o, a, r, c) ==
    /\ op' = o
    /\ arg' = a
    /\ ret' = r
    /\ calls' = c
    /\ self' = shared_borrow(self)
    /\ \/ seen' = seen
       \/ seen = None /\ seen' = Some([op |-> o, arg |-> a, ret |-> r])
    /\ UNCHANGED <<eos, total, breakdown, pc, run>>

PyGetTotalMoles ==
    /\ pc = "ready" /\ self # None
    /\ Query("State.total_moles", None, PyState_get_total_moles(Receiver), <<>>)

PyGetTemperature ==
    /\ pc = "ready" /\ self # None
    /\ Query("State.temperature", None, PyState_get_temperature(Receiver), <<>>)

PyGetVolume ==
    /\ pc = "ready" /\ self # None
    /\ Query("State.volume", None, PyState_get_volume(Receiver), <<>>)

PyGetDensity ==
    /\ pc = "ready" /\ self # None
    /\ Query("State.density", None, PyState_get_density(Receiver), <<>>)

PyGetMoles ==
    /\ pc = "ready" /\ self # None
    /\ Query("State.moles", None, PyState_get_moles(Receiver), <<>>)

PyGetPartialDensity ==
    /\ pc = "ready" /\ self # None
    /\ Query("State.partial_density", None, PyState_get_partial_density(Receiver), <<>>)

PyGetMolefracs ==
    /\ pc = "ready" /\ self # None
    /\ Query("State.molefracs", None, PyState_get_molefracs(Receiver), <<>>)

PyPressure ==
    /\ pc = "ready" /\ self # None
    /\ \E c \in ContributionsArgs :
        Query("State.pressure", c,
              PyState_pressure(Receiver, contributions_or_default(c)),
              <<[fn |-> "State::pressure",
                 contributions |-> contributions_or_default(c)]>>)

PyMolarEntropy ==
    /\ pc = "ready" /\ self # None
    /\ \E c \in ContributionsArgs :
        Query("State.molar_entropy", c,
              PyState_molar_entropy(Receiver, contributions_or_default(c)),
              <<[fn |-> "State::molar_entropy",
                 contributions |-> contributions_or_default(c)]>>)

PyPartialMolarVolume ==
    /\ pc = "ready" /\ self # None
    /\ Query("State.partial_molar_volume", None,
             PyState_partial_molar_volume(Receiver),
             <<[fn |-> "State::partial_molar_volume"]>>)

PyJouleThomson ==
    /\ pc = "ready" /\ self # None
    /\ Query("State.joule_thomson", None, PyState_joule_thomson(Receiver),
             <<[fn |-> "State::joule_thomson"]>>)

PyStabilityAnalysis ==
    /\ pc = "ready" /\ self # None
    /\ \E a \in StabilityArgs :
        Query("State.stability_analysis", a,
              PyState_stability_analysis(Receiver, a.max_iter, a.tol),
              <<[fn |-> "State::stability_analysis"]>>)

PyIsStable ==
    /\ pc = "ready" /\ self # None
    /\ \E a \in StabilityArgs :
        Query("State.is_stable", a,
              PyState_is_stable(Receiver, a.max_iter, a.tol),
              <<[fn |-> "State::is_stable"]>>)

QueryNext ==
    \/ PyGetTotalMoles
    \/ PyGetTemperature
    \/ PyGetVolume
    \/ PyGetDensity
    \/ PyGetMoles
    \/ PyGetPartialDensity
    \/ PyGetMolefracs
    \/ PyPressure
    \/ PyMolarEntropy
    \/ PyPartialMolarVolume
    \/ PyJouleThomson
    \/ PyStabilityAnalysis
    \/ PyIsStable

QuerySpec == QueryInit /\ [][QueryNext]_vars

(***************************************************************************)
(* f64 division and multiplication of non-negative values, with a mantissa *)
(* of three bits and exact quotients as values: the result is rounded to   *)
(* the nearest representable value, ties to the even mantissa, so that     *)
(* a / s and a * (1 / s) can differ.                                       *)
(***************************************************************************)
f64_nearest(n, d) ==
    LET q == n \div d
        r == n % d
    IN  IF 2 * r < d THEN q
        ELSE IF 2 * r > d THEN q + 1
        ELSE IF q % 2 = 0 THEN q ELSE q + 1

RECURSIVE f64_round(_, _)
f64_round(n, d) ==
    IF n = 0 THEN Frac(0, 1)
    ELSE IF n >= 8 * d
    THEN LET h == f64_round(n, 2 * d) IN Frac(2 * h.num, h.den)
    ELSE IF n < 4 * d
    THEN LET h == f64_round(2 * n, d) IN Frac(h.num, 2 * h.den)
    ELSE Frac(f64_nearest(n, d), 1)

f64_inf == [num |-> 1, den |-> 0]

f64(x) == f64_round(x, 1)
f64_add(a, b) == f64_round(a.num * b.den + b.num * a.den, a.den * b.den)
f64_mul(a, b) == f64_round(a.num * b.num, a.den * b.den)
f64_div(a, b) ==
    IF b.num = 0 THEN f64_inf ELSE f64_round(a.num * b.den, a.den * b.num)

\* Iterator::sum::<f64>()
RECURSIVE f64_sum_from(_, _, _)
f64_sum_from(xs, i, acc) ==
    IF i > Len(xs) THEN acc ELSE f64_sum_from(xs, i + 1, f64_add(acc, xs[i]))

f64_sum(xs) == f64_sum_from(xs, 1, f64(0))

(***************************************************************************)
(* The Estimator: three lists, of data sets, weights and losses.  A        *)
(* behaviour builds one with new and add_data and then evaluates it once,  *)
(* with cost or with par_cost.                                             *)
(***************************************************************************)
MaxData == 2

Estimator(data, weights, losses) ==
    [class |-> "Estimator", data |-> data, weights |-> weights, losses |-> losses]

EstimatorError(of) == [type |-> "EstimatorError", of |-> of]
ShapeError == [type |-> "EstimatorError", of |-> "ShapeError"]

\* a DataSet: the residuals it computes for a model, or the error it fails with
DataSet(name, residuals, error) ==
    [name |-> name, residuals |-> residuals, error |-> error]

DataSets ==
    {DataSet("a", <<f64(1)>>, None),
     DataSet("b", <<f64(2), f64(3)>>, None),
     DataSet("c", <<>>, Some(EstimatorError("c")))}

Weights == {f64(2), f64(3)}
Losses == {"Linear", "Huber"}

\* Loss::apply
apply_loss(loss, x) ==
    IF loss = "Linear" \/ x.num <= x.den THEN x ELSE f64(1)

\* DataSet::cost
DataSet_cost(d, e, loss) ==
    IF IsSome(d.error) THEN Err(Unwrap(d.error))
    ELSE Ok([i \in 1..Len(d.residuals) |-> apply_loss(loss, d.residuals[i])])

\* Array1<f64> * f64
scaled(a, w) == [i \in 1..Len(a) |-> f64_mul(a[i], w)]

RECURSIVE flatten(_)
flatten(arrays) ==
    IF arrays = <<>> THEN <<>> ELSE arrays[1] \o flatten(Tail(arrays))

\* ndarray::concatenate(Axis(0), ..)
concatenate(arrays) ==
    IF arrays = <<>> THEN Err(ShapeError) ELSE Ok(flatten(arrays))

\* Estimator::new
Estimator_new(data, weights, losses) == Estimator(data, weights, losses)

\* Estimator::add_data
Estimator_add_data(est, d, weight, loss) ==
    Estimator(Append(est.data, d), Append(est.weights, weight),
              Append(est.losses, loss))

cost_weights_raw(est) == est.weights

\* the weights as cost applies them: arr1(&self.weights) / sum
cost_weights(est) ==
    [i \in 1..Len(est.weights) |-> f64_div(est.weights[i], f64_sum(est.weights))]

\* the map over self.data of cost: item i, then the items after it
RECURSIVE cost_items(_, _, _, _, _)
cost_items(est, e, w, i, acc) ==
    IF i > Len(est.data) THEN Ok(acc)
    ELSE IF i > Len(est.losses) THEN Panic("index out of bounds")
    ELSE LET c == DataSet_cost(est.data[i], e, est.losses[i])
         IN  IF ~c.ok THEN c
             ELSE IF i > Len(w) THEN Panic("index out of bounds")
             ELSE cost_items(est, e, w, i + 1, Append(acc, scaled(c.val, w[i])))

\* Estimator::cost
Estimator_cost(est, e) ==
    LET costs == cost_items(est, e, cost_weights(est), 1, <<>>)
    IN  IF ~costs.ok THEN costs ELSE concatenate(costs.val)

\* the weights as par_cost applies them: wi * (1.0 / sum)
par_cost_weights(est) ==
    LET ws_inv == f64_div(f64(1), f64_sum(est.weights))
    IN  [i \in 1..Len(est.weights) |-> f64_mul(est.weights[i], ws_inv)]

Min(a, b) == IF a < b THEN a ELSE b

\* the number of work items of par_cost: the zip of data, w and losses
par_cost_items(est) ==
    Min(Len(est.data), Min(Len(est.weights), Len(est.losses)))

\* the work item of par_cost for index i
par_cost_item(est, e, w, i) ==
    LET c == DataSet_cost(est.data[i], e, est.losses[i])
    IN  IF ~c.ok THEN c ELSE Ok(scaled(c.val, w[i]))

EstimatorInit ==
    /\ eos = Model(1, <<Contribution("Hard Sphere", 4)>>)
    /\ self = None
    /\ seen = None
    /\ op = ""
    /\ arg = None
    /\ ret = None
    /\ calls = <<>>
    /\ total = None
    /\ breakdown = None
    /\ pc = "ready"
    /\ run = NoRun

\* the lists new is given: empty or of one entry each, and so of equal or
\* of different lengths; longer lists are built by add_data
AtMostOne(S) == {<<>>} \cup {<<x>> : x \in S}

\* Estimator::new
EstimatorNew ==
    /\ pc = "ready" /\ self = None
    /\ \E data \in AtMostOne(DataSets),
          weights \in AtMostOne(Weights),
          losses \in AtMostOne(Losses) :
        /\ op' = "Estimator.new"
        /\ arg' = <<data, weights, losses>>
        /\ self' = Some(Estimator_new(data, weights, losses))
    /\ ret' = None
    /\ UNCHANGED <<seen, eos, calls, total, breakdown, pc, run>>

\* Estimator::add_data
EstimatorAddData ==
    /\ pc = "ready" /\ self # None
    /\ Len(Unwrap(self).data) < MaxData
    /\ \E d \in DataSets, weight \in Weights, loss \in Losses :
        /\ op' = "Estimator.add_data"
        /\ arg' = <<d, weight, loss>>
        /\ self' = Some(Estimator_add_data(Unwrap(self), d, weight, loss))
        /\ seen' = Some([op |-> "Estimator.add_data", arg |-> <<d, weight, loss>>,
                         ret |-> None])
    /\ ret' = None
    /\ UNCHANGED <<eos, calls, total, breakdown, pc, run>>

\* Estimator::cost
EstimatorCost ==
    /\ pc = "ready" /\ self # None
    /\ op' = "Estimator.cost"
    /\ arg' = None
    /\ ret' = Estimator_cost(Unwrap(self), eos)
    /\ pc' = "done"
    /\ UNCHANGED <<self, seen, eos, calls, total, breakdown, run>>

\* Estimator::par_cost up to the start of the parallel iterator
EstimatorParCost ==
    /\ pc = "ready" /\ self # None
    /\ op' = "Estimator.par_cost"
    /\ arg' = None
    /\ ret' = None
    /\ pc' = "par_cost"
    /\ run' = [w |-> par_cost_weights(Unwrap(self)),
               results |-> [i \in 1..par_cost_items(Unwrap(self)) |-> None],
               error |-> None]
    /\ UNCHANGED <<self, seen, eos, calls, total, breakdown>>

\* a worker thread runs one work item to its end; the first error found
\* is the one the collection keeps
ParCostWork ==
    /\ pc = "par_cost"
    /\ \E i \in 1..Len(run.results) :
        /\ run.results[i] = None
        /\ LET r == par_cost_item(Unwrap(self), eos, run.w, i)
           IN  run' = [run EXCEPT
                          !.results[i] = Some(r),
                          !.error = IF @ = None /\ ~r.ok THEN Some(r.err) ELSE @]
    /\ UNCHANGED <<self, seen, eos, op, arg, ret, calls, total, breakdown, pc>>

\* the collection into Result<Vec<_>, _> ends, then the concatenation
ParCostCollect ==
    /\ pc = "par_cost"
    /\ \/ run.error # None
       \/ \A i \in 1..Len(run.results) : run.results[i] # None
    /\ ret' = IF run.error # None THEN Err(Unwrap(run.error))
              ELSE concatenate([i \in 1..Len(run.results) |->
                                   Unwrap(run.results[i]).val])
    /\ pc' = "done"
    /\ UNCHANGED <<self, seen, eos, op, arg, calls, total, breakdown, run>>

EstimatorNext ==
    \/ EstimatorNew
    \/ EstimatorAddData
    \/ EstimatorCost
    \/ EstimatorParCost
    \/ ParCostWork
    \/ ParCostCollect

EstimatorSpec == EstimatorInit /\ [][EstimatorNext]_vars

(***************************************************************************)
(* Binary interaction parameters from segments.  The values are exact      *)
(* quotients.                                                              *)
(***************************************************************************)
MaxCount == 2
MaxEntries == 2

f64_nan == [num |-> 0, den |-> 0]

Rat_add(a, b) == Frac(a.num * b.den + b.num * a.den, a.den * b.den)
Rat_times(a, n) == Frac(a.num * n, a.den)
Rat_over(a, n) == IF n = 0 THEN f64_nan ELSE Frac(a.num, a.den * n)

\* PcSaftBinaryRecord
PcSaftBinaryRecord(k_ij, association) ==
    [k_ij |-> k_ij, association |-> association]

\* the fold of from_segments_binary over the entries (br, n1, n2)
RECURSIVE fold_segments(_, _, _, _)
fold_segments(segments, i, k_ij, n) ==
    IF i > Len(segments) THEN <<k_ij, n>>
    ELSE LET nab == segments[i][2] * segments[i][3]
         IN  fold_segments(segments, i + 1,
                           Rat_add(k_ij, Rat_times(segments[i][1], nab)), n + nab)

from_segments_binary_unweighted(segments) ==
    LET f == fold_segments([i \in 1..Len(segments) |-> <<segments[i][1], 1, 1>>],
                           1, Frac(0, 1), 0)
    IN  Ok(PcSaftBinaryRecord(Rat_over(f[1], f[2]), None))

\* PcSaftBinaryRecord::from_segments_binary
from_segments_binary(segments) ==
    LET f == fold_segments(segments, 1, Frac(0, 1), 0)
    IN  Ok(PcSaftBinaryRecord(Rat_over(f[1], f[2]), None))

\* the segment pair values of test_kij
SegmentTypes == <<"CH3", "CH2", "OH">>

segment_k_ij(a, b) ==
    IF {a, b} = {"CH3", "OH"} THEN Frac(-1, 5)
    ELSE IF {a, b} = {"CH2", "OH"} THEN Frac(-1, 10)
    ELSE Frac(0, 1)

\* how often a segment occurs in a molecule
segment_count(molecule, t) ==
    Cardinality({i \in 1..Len(molecule) : molecule[i] = t})

\* the entries (k, n1, n2) of two molecules: one for every pair of a
\* segment of the first and a segment of the second
segment_pairs(m1, m2) ==
    [p \in 1..(Len(SegmentTypes) * Len(SegmentTypes)) |->
        LET a == SegmentTypes[((p - 1) \div Len(SegmentTypes)) + 1]
            b == SegmentTypes[((p - 1) % Len(SegmentTypes)) + 1]
        IN  <<segment_k_ij(a, b), segment_count(m1, a), segment_count(m2, b)>>]

\* the binary records of PcSaftParameters::from_segments
from_segments(molecules) ==
    [i \in 1..Len(molecules) |-> [j \in 1..Len(molecules) |->
        IF i = j THEN PcSaftBinaryRecord(Frac(0, 1), None)
        ELSE from_segments_binary(segment_pairs(molecules[i], molecules[j])).val]]

SegmentEntries ==
    {<<k, n1, n2>> : k \in {Frac(-1, 5), Frac(-1, 10), Frac(0, 1)},
                     n1 \in 0..MaxCount, n2 \in 0..MaxCount}

Molecules ==
    {<<"CH3", "CH2", "CH3">>, <<"CH3", "CH2", "OH">>, <<"CH3", "OH">>, <<"CH3", "CH3">>}

SegmentInit == EstimatorInit

FromSegmentsBinary ==
    /\ pc = "ready"
    /\ \E segments \in SeqsUpTo(SegmentEntries, MaxEntries) :
        /\ op' = "PcSaftBinaryRecord.from_segments_binary"
        /\ arg' = segments
        /\ ret' = from_segments_binary(segments)
    /\ pc' = "done"
    /\ UNCHANGED <<self, seen, eos, calls, total, breakdown, run>>

FromSegments ==
    /\ pc = "ready"
    /\ \E m1 \in Molecules, m2 \in Molecules :
        /\ op' = "PcSaftParameters.from_segments"
        /\ arg' = <<m1, m2>>
        /\ ret' = Ok(from_segments(<<m1, m2>>))
    /\ pc' = "done"
    /\ UNCHANGED <<self, seen, eos, calls, total, breakdown, run>>

SegmentNext == FromSegmentsBinary \/ FromSegments

SegmentSpec == SegmentInit /\ [][SegmentNext]_vars

(***************************************************************************)
(* PC-SAFT pure component records.  A number is a natural number here      *)
(* unless it is the result of a division.                                  *)
(***************************************************************************)
MaxSite == 1
MaxAssoc == 2

PcSaftAssociationRecord(kappa_ab, epsilon_k_ab) ==
    [kappa_ab |-> kappa_ab, epsilon_k_ab |-> epsilon_k_ab]

AssociationRecord(parameters, na, nb, nc) ==
    [parameters |-> parameters, na |-> na, nb |-> nb, nc |-> nc]

\* Option::unwrap_or_default for f64
unwrap_or_default(o) == IF IsSome(o) THEN Unwrap(o) ELSE 0

PcSaftRecord_new_requiring_all(m, sigma, epsilon_k, mu, q, kappa_ab, epsilon_k_ab, na, nb, nc, association_records, viscosity, diffusion, thermal_conductivity) ==
    [m |-> m, sigma |-> sigma, epsilon_k |-> epsilon_k, mu |-> mu, q |-> q,
     association_records |->
         IF IsSome(na) /\ IsSome(nb) /\ IsSome(nc)
         THEN Append(association_records,
                     AssociationRecord(
                         PcSaftAssociationRecord(unwrap_or_default(kappa_ab),
                                                 unwrap_or_default(epsilon_k_ab)),
                         unwrap_or_default(na), unwrap_or_default(nb),
                         unwrap_or_default(nc)))
         ELSE association_records,
     viscosity |-> viscosity, diffusion |-> diffusion,
     thermal_conductivity |-> thermal_conductivity]

\* PcSaftRecord::new
PcSaftRecord_new(m, sigma, epsilon_k, mu, q, kappa_ab, epsilon_k_ab, na, nb, nc, association_records, viscosity, diffusion, thermal_conductivity) ==
    [m |-> m, sigma |-> sigma, epsilon_k |-> epsilon_k, mu |-> mu, q |-> q,
     association_records |->
         IF IsSome(na) \/ IsSome(nb) \/ IsSome(nc)
         THEN Append(association_records,
                     AssociationRecord(
                         PcSaftAssociationRecord(unwrap_or_default(kappa_ab),
                                                 unwrap_or_default(epsilon_k_ab)),
                         unwrap_or_default(na), unwrap_or_default(nb),
                         unwrap_or_default(nc)))
         ELSE association_records,
     viscosity |-> viscosity, diffusion |-> diffusion,
     thermal_conductivity |-> thermal_conductivity]

\* impl From<PcSaftRecordSerde> for PcSaftRecord
PcSaftRecord_from(value) ==
    PcSaftRecord_new(value.m, value.sigma, value.epsilon_k, value.mu, value.q,
                     value.kappa_ab, value.epsilon_k_ab,
                     value.na, value.nb, value.nc, value.association_records,
                     value.viscosity, value.diffusion, value.thermal_conductivity)

PcSaftRecordSerde_from_keeping(value) ==
    LET one == Len(value.association_records) = 1
        r == value.association_records[1]
    IN  [m |-> value.m, sigma |-> value.sigma, epsilon_k |-> value.epsilon_k,
         mu |-> value.mu, q |-> value.q,
         kappa_ab |-> IF one THEN Some(r.parameters.kappa_ab) ELSE None,
         epsilon_k_ab |-> IF one THEN Some(r.parameters.epsilon_k_ab) ELSE None,
         na |-> IF one THEN Some(r.na) ELSE None,
         nb |-> IF one THEN Some(r.nb) ELSE None,
         nc |-> IF one THEN Some(r.nc) ELSE None,
         association_records |-> value.association_records,
         viscosity |-> value.viscosity, diffusion |-> value.diffusion,
         thermal_conductivity |-> value.thermal_conductivity]

\* impl From<PcSaftRecord> for PcSaftRecordSerde: a single association
\* record is popped off the list and flattened
PcSaftRecordSerde_from(value) ==
    LET one == Len(value.association_records) = 1
        r == value.association_records[1]
    IN  [m |-> value.m, sigma |-> value.sigma, epsilon_k |-> value.epsilon_k,
         mu |-> value.mu, q |-> value.q,
         kappa_ab |-> IF one THEN Some(r.parameters.kappa_ab) ELSE None,
         epsilon_k_ab |-> IF one THEN Some(r.parameters.epsilon_k_ab) ELSE None,
         na |-> IF one THEN Some(r.na) ELSE None,
         nb |-> IF one THEN Some(r.nb) ELSE None,
         nc |-> IF one THEN Some(r.nc) ELSE None,
         association_records |-> IF one THEN <<>> ELSE value.association_records,
         viscosity |-> value.viscosity, diffusion |-> value.diffusion,
         thermal_conductivity |-> value.thermal_conductivity]

\* the records the calls are made with
AssociationRecords ==
    {AssociationRecord(PcSaftAssociationRecord(1, 2), 1, 1, 0),
     AssociationRecord(PcSaftAssociationRecord(0, 0), 0, 0, 0)}

AssociationLists == SeqsUpTo(AssociationRecords, MaxAssoc)

OptionalSites == {None} \cup {Some(x) : x \in 0..MaxSite}

Coefficients(k, x) == Some([i \in 1..k |-> x + i])

PlainRecord(m, mu, q, association_records, viscosity, diffusion, thermal_conductivity) ==
    [m |-> m, sigma |-> 1, epsilon_k |-> 2, mu |-> mu, q |-> q,
     association_records |-> association_records,
     viscosity |-> viscosity, diffusion |-> diffusion,
     thermal_conductivity |-> thermal_conductivity]

ModelRecords ==
    {PlainRecord(1, None, None, <<>>, None, None, None),
     PlainRecord(2, Some(1), None, <<>>, Coefficients(4, 0), None, None),
     PlainRecord(1, None, Some(2), <<>>, Coefficients(4, 1), Coefficients(5, 0), None),
     PlainRecord(1, Some(1), Some(1), <<>>, None, Coefficients(5, 2),
                 Coefficients(4, 0)),
     PlainRecord(2, None, None,
                 <<AssociationRecord(PcSaftAssociationRecord(1, 2), 1, 1, 0)>>,
                 Coefficients(4, 2), Coefficients(5, 1), Coefficients(4, 3))}

RecordInit == EstimatorInit

\* PcSaftRecord::new
RecordNew ==
    /\ pc = "ready"
    /\ \E base \in ModelRecords, association_records \in AssociationLists,
          kappa_ab \in OptionalSites, epsilon_k_ab \in OptionalSites,
          na \in OptionalSites, nb \in OptionalSites, nc \in OptionalSites :
        /\ op' = "PcSaftRecord.new"
        /\ arg' = [base |-> base, kappa_ab |-> kappa_ab,
                   epsilon_k_ab |-> epsilon_k_ab, na |-> na, nb |-> nb, nc |-> nc,
                   association_records |-> association_records]
        /\ ret' = PcSaftRecord_new(base.m, base.sigma, base.epsilon_k, base.mu,
                                   base.q, kappa_ab, epsilon_k_ab, na, nb, nc,
                                   association_records, base.viscosity,
                                   base.diffusion, base.thermal_conductivity)
    /\ pc' = "done"
    /\ UNCHANGED <<self, seen, eos, calls, total, breakdown, run>>

\* a PcSaftRecord converted into a PcSaftRecordSerde and back
RecordIntoSerdeAndBack ==
    /\ pc = "ready"
    /\ \E base \in ModelRecords, association_records \in AssociationLists :
        LET record == [base EXCEPT !.association_records = association_records]
        IN  /\ op' = "PcSaftRecord.from(PcSaftRecordSerde.from)"
            /\ arg' = record
            /\ calls' = <<[fn |-> "PcSaftRecordSerde::from",
                           serde |-> PcSaftRecordSerde_from(record)]>>
            /\ ret' = PcSaftRecord_from(PcSaftRecordSerde_from(record))
    /\ pc' = "done"
    /\ UNCHANGED <<self, seen, eos, total, breakdown, run>>

(***************************************************************************)
(* A PcSaftRecord from segments.  cbrt, powf and ln are kept as the terms  *)
(* they are applied to.                                                    *)
(***************************************************************************)
IncompatibleParameters(dipolar, quadrupolar) ==
    [type |-> "IncompatibleParameters",
     msg |-> "Too many polar segments", dipolar |-> dipolar,
     quadrupolar |-> quadrupolar]

\* filter_map(|(s, n)| s.mu.map(|mu| mu * n)).reduce(|a, b| a + b), for
\* the moments and the counts of the segments
segments_reduce(moments, counts) ==
    IF \A i \in DOMAIN moments : moments[i] = None THEN None
    ELSE Some(SeqSum([i \in DOMAIN moments |->
                         IF IsSome(moments[i]) THEN Unwrap(moments[i]) * counts[i]
                         ELSE 0]))

segments_diffusion_summed(segments) ==
    IF \A i \in DOMAIN segments : IsSome(segments[i][1].diffusion)
    THEN Some([k \in 1..5 |->
                  SeqSum([i \in DOMAIN segments |->
                             segments[i][2] * Unwrap(segments[i][1].diffusion)[k]])])
    ELSE None

\* the diffusion coefficients of from_segments
segments_diffusion(segments) ==
    IF \A i \in DOMAIN segments : IsSome(segments[i][1].diffusion)
    THEN Some([k \in 1..5 |-> 0])
    ELSE None

\* the viscosity coefficients of from_segments
segments_viscosity(segments, m, sigma3) ==
    IF \A i \in DOMAIN segments : IsSome(segments[i][1].viscosity)
    THEN LET n(i) == segments[i][2]
             s3(i) == segments[i][1].m * segments[i][1].sigma * segments[i][1].sigma
                      * segments[i][1].sigma * n(i)
             v(i) == Unwrap(segments[i][1].viscosity)
         IN  Some(<<[sum |-> SeqSum([i \in DOMAIN segments |-> s3(i) * v(i)[1]]),
                     minus_half_ln |-> m],
                    [terms |-> [i \in DOMAIN segments |-> s3(i) * v(i)[2]],
                     over_powf |-> <<sigma3, "0.45">>],
                    SeqSum([i \in DOMAIN segments |-> n(i) * v(i)[3]]),
                    SeqSum([i \in DOMAIN segments |-> n(i) * v(i)[4]])>>)
    ELSE None

\* the thermal conductivity coefficients of from_segments
segments_thermal_conductivity(segments) ==
    IF \A i \in DOMAIN segments : IsSome(segments[i][1].thermal_conductivity)
    THEN LET n(i) == segments[i][2]
             n_t == SeqSum([i \in DOMAIN segments |-> n(i)])
             c(i) == Unwrap(segments[i][1].thermal_conductivity)
         IN  Some(<<SeqSum([i \in DOMAIN segments |-> n(i) * c(i)[1]]),
                    SeqSum([i \in DOMAIN segments |-> n(i) * c(i)[2]]),
                    SeqSum([i \in DOMAIN segments |-> n(i) * c(i)[3]]),
                    SeqSum([i \in DOMAIN segments |-> n_t * c(i)[4]])>>)
    ELSE None

\* impl FromSegments<f64> for PcSaftRecord
from_segments_f64(segments) ==
    LET s(i) == segments[i][1]
        n(i) == segments[i][2]
        counts == [i \in DOMAIN segments |-> n(i)]
        m == SeqSum([i \in DOMAIN segments |-> s(i).m * n(i)])
        sigma3 == SeqSum([i \in DOMAIN segments |->
                             s(i).m * s(i).sigma * s(i).sigma * s(i).sigma * n(i)])
        epsilon_k == SeqSum([i \in DOMAIN segments |-> s(i).m * s(i).epsilon_k * n(i)])
    IN  Ok([m |-> m,
            sigma |-> [cbrt |-> Rat_over(Frac(sigma3, 1), m)],
            epsilon_k |-> Rat_over(Frac(epsilon_k, 1), m),
            mu |-> segments_reduce([i \in DOMAIN segments |-> s(i).mu], counts),
            q |-> segments_reduce([i \in DOMAIN segments |-> s(i).q], counts),
            association_records |->
                flatten([i \in DOMAIN segments |->
                    [j \in DOMAIN s(i).association_records |->
                        LET record == s(i).association_records[j]
                        IN  AssociationRecord(record.parameters, record.na * n(i),
                                              record.nb * n(i), record.nc * n(i))]]),
            viscosity |-> segments_viscosity(segments, m, sigma3),
            diffusion |-> segments_diffusion(segments),
            thermal_conductivity |-> segments_thermal_conductivity(segments)])

\* c as f64
usize_as_f64(c) == FRound(c)

polar_segments_by_record(segments) ==
    Len(SelectSeq(segments, LAMBDA e : IsSome(e[1].q) \/ IsSome(e[1].mu)))

\* the number of segments with a dipole or a quadrupole moment
polar_segments(segments) ==
    SeqSum([i \in DOMAIN segments |->
               IF IsSome(segments[i][1].q) \/ IsSome(segments[i][1].mu)
               THEN segments[i][2] ELSE 0])

\* impl FromSegments<usize> for PcSaftRecord
from_segments_usize(segments) ==
    IF polar_segments(segments) > 1
    THEN Err(IncompatibleParameters(
                 SeqSum([i \in DOMAIN segments |->
                            IF IsSome(segments[i][1].mu) THEN segments[i][2] ELSE 0]),
                 SeqSum([i \in DOMAIN segments |->
                            IF IsSome(segments[i][1].q) THEN segments[i][2] ELSE 0])))
    ELSE from_segments_f64([i \in DOMAIN segments |->
                               <<segments[i][1], usize_as_f64(segments[i][2])>>])

CountedSegments ==
    SeqsUpTo(ModelRecords \X (0..MaxCount), MaxEntries)

FromSegmentsReal ==
    /\ pc = "ready"
    /\ \E segments \in CountedSegments :
        /\ op' = "PcSaftRecord.from_segments(f64)"
        /\ arg' = segments
        /\ ret' = from_segments_f64(segments)
    /\ pc' = "done"
    /\ UNCHANGED <<self, seen, eos, calls, total, breakdown, run>>

FromSegmentsCounts ==
    /\ pc = "ready"
    /\ \E segments \in CountedSegments :
        /\ op' = "PcSaftRecord.from_segments(usize)"
        /\ arg' = segments
        /\ ret' = from_segments_usize(segments)
    /\ pc' = "done"
    /\ UNCHANGED <<self, seen, eos, calls, total, breakdown, run>>

(***************************************************************************)
(* PcSaftParameters::from_records: the arrays read off the pure records    *)
(* and the tables of entropy scaling coefficients.  The combining rules    *)
(* and the association parameters are left out.                            *)
(***************************************************************************)
PureRecord(identifier, molarweight, model_record) ==
    [identifier |-> identifier, molarweight |-> molarweight,
     model_record |-> model_record]

coefficient_table_partial(coefficients, rows) ==
    IF \A i \in 1..Len(coefficients) : coefficients[i] = None THEN None
    ELSE Some([shape |-> <<rows, Len(coefficients)>>,
               columns |-> [i \in 1..Len(coefficients) |->
                               IF coefficients[i] = None THEN [k \in 1..rows |-> 0]
                               ELSE Unwrap(coefficients[i])]])

\* an Array2 of rows x n with the coefficients of component i in column i,
\* or None if a component has none
coefficient_table(coefficients, rows) ==
    IF \E i \in 1..Len(coefficients) : coefficients[i] = None THEN None
    ELSE Some([shape |-> <<rows, Len(coefficients)>>,
               columns |-> [i \in 1..Len(coefficients) |-> Unwrap(coefficients[i])]])

\* PcSaftParameters::from_records
from_records(pure_records) ==
    LET r(i) == pure_records[i].model_record
        n == Len(pure_records)
    IN  Ok([molarweight |-> [i \in 1..n |-> pure_records[i].molarweight],
            m |-> [i \in 1..n |-> r(i).m],
            sigma |-> [i \in 1..n |-> r(i).sigma],
            epsilon_k |-> [i \in 1..n |-> r(i).epsilon_k],
            mu |-> [i \in 1..n |-> unwrap_or_default(r(i).mu)],
            q |-> [i \in 1..n |-> unwrap_or_default(r(i).q)],
            viscosity |-> coefficient_table([i \in 1..n |-> r(i).viscosity], 4),
            diffusion |-> coefficient_table([i \in 1..n |-> r(i).diffusion], 5),
            thermal_conductivity |->
                coefficient_table([i \in 1..n |-> r(i).thermal_conductivity], 4),
            pure_records |-> pure_records])

FromRecords ==
    /\ pc = "ready"
    /\ \E records \in SeqsUpTo(ModelRecords, MaxComponents) :
        LET pure_records ==
                [i \in 1..Len(records) |-> PureRecord(i, 10 + i, records[i])]
        IN  /\ op' = "PcSaftParameters.from_records"
            /\ arg' = pure_records
            /\ ret' = from_records(pure_records)
    /\ pc' = "done"
    /\ UNCHANGED <<self, seen, eos, calls, total, breakdown, run>>

RecordNext ==
    \/ RecordNew
    \/ RecordIntoSerdeAndBack
    \/ FromSegmentsReal
    \/ FromSegmentsCounts
    \/ FromRecords

RecordSpec == RecordInit /\ [][RecordNext]_vars

(***************************************************************************)
(* Readings of a finished solver call.                                     *)
(***************************************************************************)
Exhausted(r) == ~r.ok /\ r.err = IterationFailure
LeftDomain(r) == ~r.ok /\ r.err = DomainError

BranchResults == {run.results[i] : i \in 1..Len(run.results)}
ConvergedStates == {r.val : r \in {x \in BranchResults : x.ok}}

ReturnedStates ==
    IF ~ret.ok THEN {}
    ELSE IF op = "State.spinodal" THEN {ret.val[1].state, ret.val[2].state}
    ELSE {ret.val.state}

CoreError(type) ==
    ~ret.ok /\ ret.err.type = "PyErr" /\ ret.err.cause.type = type

C6_ThreeOutcomes ==
    pc = "done" =>
        \/ ret.ok
        \/ CoreError("IterationFailure")
        \/ CoreError("DomainError")

(***************************************************************************)
(* C6, amended: every solver call ends in exactly one of four outcomes: it *)
(* is rejected before any iteration (composition mismatch, inconsistent    *)
(* specification, bad argument value), it returns a state, it exhausts its *)
(* budget, or it hits a domain error; a branch never runs more than        *)
(* max_iter steps and a call that iterates always ends.                    *)
(***************************************************************************)
Rejected ==
    /\ ~ret.ok
    /\ run = NoRun
    /\ \/ ret.err.type = "PyValueError"
       \/ CoreError("IncompatibleComponents")
       \/ CoreError("InconsistentSpecification")

ReturnedState ==
    /\ ret.ok
    /\ \/ run = NoRun /\ op = "State.new"
       \/ run # NoRun /\ ReturnedStates \subseteq ConvergedStates

BudgetExhausted ==
    /\ run # NoRun
    /\ CoreError("IterationFailure")
    /\ \E r \in BranchResults : Exhausted(r)

DomainErrorHit ==
    /\ run # NoRun
    /\ CoreError("DomainError")
    /\ \E r \in BranchResults : LeftDomain(r)

C6_FourOutcomes ==
    /\ [](pc = "done" =>
            Cardinality({o \in {"rejected", "state", "budget", "domain"} :
                \/ o = "rejected" /\ Rejected
                \/ o = "state" /\ ReturnedState
                \/ o = "budget" /\ BudgetExhausted
                \/ o = "domain" /\ DomainErrorHit}) = 1)
    /\ [](pc = "iterating" => run.k <= Budget)
    /\ (pc = "iterating" ~> pc = "done")

C6_Witness ==
    /\ pc = "done" /\ op = "State.spinodal"
    /\ Rejected /\ CoreError("IncompatibleComponents")

(***************************************************************************)
(* C7: a construction request that fails validation (composition length    *)
(* mismatch, inconsistent specification) is answered with the validation   *)
(* error at once: no iteration step runs for it and State::new_full is     *)
(* entered once.                                                           *)
(***************************************************************************)
CompositionMismatch ==
    (IF IsSome(arg.moles) THEN Len(Unwrap(arg.moles)) ELSE 1) # components(eos)

ValidationError ==
    CoreError("IncompatibleComponents") \/ CoreError("InconsistentSpecification")

C7_ValidationBeforeIteration ==
    op = "State.new" =>
        /\ (CompositionMismatch \/ classify(arg.given) = "inconsistent") =>
               /\ pc = "done" /\ ~ret.ok /\ run = NoRun
               /\ calls # <<>> => ValidationError /\ Len(calls) = 1
        /\ (pc = "done" /\ ValidationError) =>
               run = NoRun /\ run.k = 0 /\ run.results = <<>>

C7_Witness ==
    /\ op = "State.new" /\ pc = "done"
    /\ CompositionMismatch /\ classify(arg.given) = "iterate"
    /\ CoreError("IncompatibleComponents")
    /\ run = NoRun

(***************************************************************************)
(* C8: a construction without density_initialization that needs the        *)
(* density iteration runs both the vapor and the liquid start; when both   *)
(* converge the state returned is one of the two and no converged branch   *)
(* has a lower free energy than it.                                        *)
(***************************************************************************)
C8_LowerFreeEnergyReturned ==
    (op = "State.new" /\ arg.density_initialization = None
        /\ ~CompositionMismatch /\ classify(arg.given) = "iterate") =>
        /\ run.branches = <<"vapor", "liquid">>
        /\ pc = "done" =>
               /\ Len(run.results) = 2
               /\ (run.results[1].ok /\ run.results[2].ok) =>
                      /\ ret.ok
                      /\ ret.val.state \in ConvergedStates
                      /\ \A s \in ConvergedStates :
                             free_energy(ret.val.state) <= free_energy(s)

C8_Witness ==
    /\ op = "State.new" /\ pc = "done" /\ arg.density_initialization = None
    /\ Len(run.results) = 2
    /\ run.results[1].ok /\ run.results[2].ok
    /\ free_energy(run.results[2].val) < free_energy(run.results[1].val)
    /\ ret.ok /\ ret.val.state = run.results[2].val

(***************************************************************************)
(* C9: density_initialization maps to exactly one hint: absent to None,    *)
(* 'vapor' to Vapor, 'liquid' to Liquid, a molar density to                *)
(* InitialDensity of it; any other value is rejected with a ValueError and *)
(* State::new_full is not invoked.                                         *)
(***************************************************************************)
C9_DensityInitialization ==
    op = "State.new" =>
        LET di == arg.density_initialization
            NewFull(h) == calls = <<[fn |-> "State::new_full", hint |-> h]>>
        IN  IF di = None THEN NewFull([hint |-> "None"])
            ELSE IF Unwrap(di).py = "str" /\ Unwrap(di).s = "vapor"
            THEN NewFull([hint |-> "Vapor"])
            ELSE IF Unwrap(di).py = "str" /\ Unwrap(di).s = "liquid"
            THEN NewFull([hint |-> "Liquid"])
            ELSE IF Unwrap(di).py = "SINumber" /\ Unwrap(di).unit = "Density"
            THEN NewFull([hint |-> "InitialDensity", rho |-> Unwrap(di).v])
            ELSE /\ pc = "done"
                 /\ ~ret.ok /\ ret.err.type = "PyValueError"
                 /\ calls = <<>>
                 /\ run = NoRun

C9_Witness ==
    /\ op = "State.new" /\ pc = "done"
    /\ arg.density_initialization = Some(PyStr("Vapor"))
    /\ ~ret.ok /\ ret.err.type = "PyValueError"
    /\ calls = <<>>

(***************************************************************************)
(* Requests for a mass specific property made to a model without molar     *)
(* weight: on a state of such a model, or on a list of such states.        *)
(***************************************************************************)
StateOps == {"State.mass_density", "State.massfracs"}
VecGetters == {"StateVec.mass_density", "StateVec.massfracs"}
VecOps == VecGetters \cup {"StateVec.specific_entropy"}

NoMolarWeightRequest ==
    \/ op \in StateOps /\ arg.eos.kind = "NoResidual"
    \/ /\ op \in VecOps /\ arg # <<>>
       /\ \A i \in 1..Len(arg) : arg[i].eos.kind = "NoResidual"

C11_NoPanic == (op # "" /\ ~ret.ok) => "err" \in DOMAIN ret

C13_DerivedConsistent ==
    self # None =>
        LET s == Receiver
            n == s.moles
        IN  /\ op = "State.temperature" => ret = s.temperature
            /\ op = "State.volume" => ret = s.volume
            /\ op = "State.moles" => ret = n
            /\ op = "State.total_moles" => ret = SeqSum(n)
            /\ op = "State.density" => ret = Frac(SeqSum(n), s.volume)
            /\ op = "State.partial_density" =>
                   /\ Len(ret) = Len(n)
                   /\ \A i \in 1..Len(n) : ret[i] = Frac(n[i], s.volume)
            /\ op = "State.molefracs" =>
                   /\ Len(ret) = Len(n)
                   /\ \A i \in 1..Len(n) : ret[i] = Frac(n[i], SeqSum(n))
            /\ PyState_get_density(s) =
                   Frac(PyState_get_total_moles(s), PyState_get_volume(s))

C13_Witness ==
    /\ self # None
    /\ op = "State.density"
    /\ Len(Receiver.moles) = 2
    /\ ret = Frac(Receiver.moles[1] + Receiver.moles[2], Receiver.volume)
    /\ ret.den # 1

(***************************************************************************)
(* C14 as stated: every derived property accessor of a State takes the     *)
(* contribution filter and hands it, Total when omitted, to the State.     *)
(***************************************************************************)
DerivedOps ==
    {"State.pressure", "State.molar_entropy",
     "State.partial_molar_volume", "State.joule_thomson"}

C14_EveryAccessorFiltered ==
    op \in DerivedOps =>
        /\ "contributions" \in DOMAIN calls[1]
        /\ calls[1].contributions = (IF arg = None THEN "Total" ELSE Unwrap(arg))

(***************************************************************************)
(* C14, amended: an accessor that has a contributions parameter (pressure, *)
(* molar_entropy) defaults it to Total and hands the filter unchanged to   *)
(* the State, whose answer it returns; partial_molar_volume and            *)
(* joule_thomson take no filter.                                           *)
(***************************************************************************)
C14_FilterWhereAccepted ==
    /\ op \in {"State.pressure", "State.molar_entropy"} =>
           LET c == IF arg = None THEN "Total" ELSE Unwrap(arg)
           IN  /\ arg \in ContributionsArgs
               /\ calls[1].contributions = c
               /\ op = "State.pressure" => ret = State_pressure(Receiver, c)
               /\ op = "State.molar_entropy" =>
                      ret = State_molar_entropy(Receiver, c)
    /\ op \in {"State.partial_molar_volume", "State.joule_thomson"} =>
           /\ arg = None
           /\ "contributions" \notin DOMAIN calls[1]

C14_Witness ==
    /\ op = "State.pressure"
    /\ arg = None
    /\ calls = <<[fn |-> "State::pressure", contributions |-> "Total"]>>
    /\ ret = State_pressure(Receiver, "Total")
    /\ ret # State_pressure(Receiver, "Residual")
    /\ ret # State_pressure(Receiver, "IdealGas")

EqualLengths ==
    /\ Len(Unwrap(self).data) = Len(Unwrap(self).weights)
    /\ Len(Unwrap(self).data) = Len(Unwrap(self).losses)

(***************************************************************************)
(* C18 as stated: for lists of equal length a finished par_cost has        *)
(* returned what cost returns, and has failed exactly when cost fails.     *)
(***************************************************************************)
C18_ParCostEqualsCost ==
    (op = "Estimator.par_cost" /\ pc = "done" /\ EqualLengths) =>
        LET c == Estimator_cost(Unwrap(self), eos)
        IN  /\ ret.ok <=> c.ok
            /\ ret.ok => ret = c

(***************************************************************************)
(* C19: after new and any add_data calls, a cost that succeeds returns,    *)
(* concatenated in insertion order, the cost array of every data set i     *)
(* multiplied by weight i divided by the sum of all weights now stored;    *)
(* with lists of equal length it fails only when a data set fails or       *)
(* there is none.                                                          *)
(***************************************************************************)
C19_WeightsNormalized ==
    (op = "Estimator.cost" /\ self # None) =>
        LET est == Unwrap(self)
            sum == f64_sum(est.weights)
            weighted(i) ==
                scaled(DataSet_cost(est.data[i], eos, est.losses[i]).val,
                       f64_div(est.weights[i], sum))
            failing == {i \in 1..Len(est.data) : IsSome(est.data[i].error)}
        IN  /\ ret.ok =>
                   ret.val = flatten([i \in 1..Len(est.data) |-> weighted(i)])
            /\ (EqualLengths /\ failing = {} /\ est.data # <<>>) => ret.ok
            /\ (EqualLengths /\ failing # {}) =>
                   \E i \in failing :
                       /\ ret = Err(Unwrap(est.data[i].error))
                       /\ \A j \in failing : i <= j

C19_Witness ==
    /\ op = "Estimator.cost" /\ self # None
    /\ seen # None /\ Unwrap(seen).op = "Estimator.add_data"
    /\ Unwrap(self).weights = <<f64(3), f64(2)>>
    /\ Len(Unwrap(self).data) = 2
    /\ Unwrap(self).data[1].name = "b" /\ Unwrap(self).data[2].name = "a"
    /\ Unwrap(self).losses = <<"Linear", "Linear">>
    /\ ret = Ok(<<f64_mul(f64(2), Frac(5, 8)), f64_mul(f64(3), Frac(5, 8)),
                  f64_mul(f64(1), Frac(3, 8))>>)

(***************************************************************************)
(* C20: from_segments_binary over entries (k, n1, n2) returns the pair     *)
(* count weighted average sum(k*n1*n2) / sum(n1*n2) as k_ij, with no       *)
(* association record; the k_ij matrix of two molecules built from         *)
(* segments is symmetric with zero diagonal, and propane against ethanol   *)
(* gives -0.5/9 off the diagonal.                                          *)
(***************************************************************************)
RECURSIVE WeightedSum(_)
WeightedSum(entries) ==
    IF entries = <<>> THEN Frac(0, 1)
    ELSE Rat_add(Rat_times(entries[Len(entries)][1],
                           entries[Len(entries)][2] * entries[Len(entries)][3]),
                 WeightedSum(SubSeq(entries, 1, Len(entries) - 1)))

RECURSIVE PairCount(_)
PairCount(entries) ==
    IF entries = <<>> THEN 0
    ELSE entries[1][2] * entries[1][3] + PairCount(Tail(entries))

C20_PairWeightedAverage ==
    /\ op = "PcSaftBinaryRecord.from_segments_binary" =>
           /\ ret.ok
           /\ ret.val.association = None
           /\ PairCount(arg) # 0 =>
                  ret.val.k_ij =
                      Frac(WeightedSum(arg).num, WeightedSum(arg).den * PairCount(arg))
           /\ PairCount(arg) = 0 => ret.val.k_ij = f64_nan
    /\ op = "PcSaftParameters.from_segments" =>
           /\ ret.val[1][1].k_ij = Frac(0, 1) /\ ret.val[2][2].k_ij = Frac(0, 1)
           /\ ret.val[1][2].k_ij = ret.val[2][1].k_ij
           /\ \A i, j \in 1..2 : ret.val[i][j].association = None
           /\ arg = <<(<<"CH3", "CH2", "CH3">>), (<<"CH3", "CH2", "OH">>)>> =>
                  ret.val[1][2].k_ij = Frac(-5, 90)

C20_Witness ==
    /\ op = "PcSaftParameters.from_segments"
    /\ arg = <<(<<"CH3", "CH2", "CH3">>), (<<"CH3", "CH2", "OH">>)>>
    /\ ret.val[1][2].k_ij = Frac(-1, 18)
    /\ ret.val[2][1].k_ij = Frac(-1, 18)
    /\ from_segments_binary(<<(<<Frac(-1, 5), 2, 1>>), (<<Frac(-1, 10), 1, 1>>),
                              (<<Frac(0, 1), 3, 2>>)>>).val.k_ij = Frac(-1, 18)

C27_GetItem ==
    op = "StateVec.__getitem__" =>
        LET n == Len(arg.states)
            idx == arg.idx
        IN  /\ (0 <= idx /\ idx < n) => ret = Ok(PyState(arg.states[idx + 1]))
            /\ (0 - n <= idx /\ idx < 0) =>
                   ret = Ok(PyState(arg.states[n + idx + 1]))
            /\ (idx >= n \/ idx < 0 - n) =>
                   ret = Err(PyIndexError("StateVec index out of range"))

C27_Witness ==
    /\ op = "StateVec.__getitem__"
    /\ Len(arg.states) = 2
    /\ arg.idx = 0 - 3
    /\ ret = Err(PyIndexError("StateVec index out of range"))
    /\ PyStateVec_getitem(arg.states, 0 - 1) = Ok(PyState(arg.states[2]))
    /\ PyStateVec_getitem(<<>>, 0) = Err(PyIndexError("StateVec index out of range"))

(***************************************************************************)
(* C28 as stated: every Estimator made by new and any number of add_data   *)
(* calls has data, weights and losses of equal length, and cost never      *)
(* indexes past the end of a list.                                         *)
(***************************************************************************)
C28_EqualLengths ==
    /\ self # None => EqualLengths
    /\ op = "Estimator.cost" => "panic" \notin DOMAIN ret

(***************************************************************************)
(* The part of C28 about add_data alone: it appends its arguments, one to  *)
(* each list, and keeps the entries there were.                            *)
(***************************************************************************)
AddDataAppends ==
    [][op' = "Estimator.add_data" /\ self # None =>
          /\ Unwrap(self').data = Append(Unwrap(self).data, arg'[1])
          /\ Unwrap(self').weights = Append(Unwrap(self).weights, arg'[2])
          /\ Unwrap(self').losses = Append(Unwrap(self).losses, arg'[3])]_vars

(***************************************************************************)
(* C24: PcSaftRecord::new appends exactly one association record, at the   *)
(* end of the given list, iff at least one of na, nb, nc is given; the     *)
(* record has 0 for each of kappa_ab, epsilon_k_ab, na, nb, nc not given.  *)
(* If none of na, nb, nc is given the list is kept as it is, whatever      *)
(* kappa_ab and epsilon_k_ab are.                                          *)
(***************************************************************************)
OrZero(o) == IF o = None THEN 0 ELSE o[1]

C24_OneAssociationRecord ==
    op = "PcSaftRecord.new" =>
        LET given == arg.association_records
            sites == arg.na # None \/ arg.nb # None \/ arg.nc # None
        IN  /\ sites =>
                   /\ Len(ret.association_records) = Len(given) + 1
                   /\ SubSeq(ret.association_records, 1, Len(given)) = given
                   /\ ret.association_records[Len(given) + 1] =
                          [parameters |-> [kappa_ab |-> OrZero(arg.kappa_ab),
                                           epsilon_k_ab |-> OrZero(arg.epsilon_k_ab)],
                           na |-> OrZero(arg.na), nb |-> OrZero(arg.nb),
                           nc |-> OrZero(arg.nc)]
            /\ ~sites => ret.association_records = given
            /\ ret.m = arg.base.m /\ ret.mu = arg.base.mu /\ ret.q = arg.base.q
            /\ ret.viscosity = arg.base.viscosity

C24_Witness ==
    /\ op = "PcSaftRecord.new"
    /\ arg.na = None /\ arg.nb = Some(1) /\ arg.nc = None
    /\ arg.kappa_ab = None /\ arg.epsilon_k_ab = Some(1)
    /\ Len(arg.association_records) = 2
    /\ Len(ret.association_records) = 3
    /\ ret.association_records[3].nb = 1
    /\ ret.association_records[3].na = 0

(***************************************************************************)
(* C25: a PcSaftRecord converted to PcSaftRecordSerde and back is the      *)
(* record it was: no association record gives none, a single one is       *)
(* flattened into kappa_ab, epsilon_k_ab, na, nb, nc and made again, two   *)
(* or more stay in the list in their order and nothing is flattened.       *)
(***************************************************************************)
C25_SerdeRoundTrip ==
    op = "PcSaftRecord.from(PcSaftRecordSerde.from)" =>
        LET serde == calls[1].serde
            n == Len(arg.association_records)
            flat == <<serde.kappa_ab, serde.epsilon_k_ab, serde.na, serde.nb,
                      serde.nc>>
        IN  /\ ret = arg
            /\ n = 1 =>
                   /\ serde.association_records = <<>>
                   /\ flat = <<Some(arg.association_records[1].parameters.kappa_ab),
                               Some(arg.association_records[1].parameters.epsilon_k_ab),
                               Some(arg.association_records[1].na),
                               Some(arg.association_records[1].nb),
                               Some(arg.association_records[1].nc)>>
            /\ n # 1 =>
                   /\ serde.association_records = arg.association_records
                   /\ flat = <<None, None, None, None, None>>

C25_Witness ==
    /\ op = "PcSaftRecord.from(PcSaftRecordSerde.from)"
    /\ Len(arg.association_records) = 1
    /\ arg.association_records[1].na = 0
    /\ arg.mu # None
    /\ calls[1].serde.na = Some(0)
    /\ ret = arg

(***************************************************************************)
(* C21: from_segments with integer counts fails with                       *)
(* IncompatibleParameters whenever the counts of the segments that have a  *)
(* dipole or a quadrupole moment sum to more than 1, and otherwise returns *)
(* what the real valued from_segments returns for the same segments with   *)
(* the counts converted to floating point.                                 *)
(***************************************************************************)
RECURSIVE PolarCount(_)
PolarCount(segments) ==
    IF segments = <<>> THEN 0
    ELSE (IF Head(segments)[1].mu # None \/ Head(segments)[1].q # None
          THEN Head(segments)[2] ELSE 0) + PolarCount(Tail(segments))

C21_AtMostOnePolarSegment ==
    op = "PcSaftRecord.from_segments(usize)" =>
        /\ PolarCount(arg) > 1 =>
               /\ ~ret.ok
               /\ ret.err.type = "IncompatibleParameters"
        /\ PolarCount(arg) <= 1 =>
               ret = from_segments_f64([i \in 1..Len(arg) |->
                                           <<arg[i][1], usize_as_f64(arg[i][2])>>])

C21_Witness ==
    /\ op = "PcSaftRecord.from_segments(usize)"
    /\ Len(arg) = 2
    /\ arg[1][1].mu # None /\ arg[1][2] = 0
    /\ arg[2][1].q # None /\ arg[2][2] = 1
    /\ ret.ok
    /\ ~from_segments_usize(<<(<<arg[1][1], 2>>)>>).ok

(***************************************************************************)
(* C26: in the real valued from_segments each set of transport             *)
(* coefficients is present iff every segment has that set, for viscosity,  *)
(* thermal conductivity and diffusion each on its own, and the diffusion   *)
(* coefficients, when present, are five zeros.                             *)
(***************************************************************************)
C26_TransportCoefficients ==
    op = "PcSaftRecord.from_segments(f64)" =>
        /\ ret.ok
        /\ ret.val.viscosity # None <=>
               \A i \in 1..Len(arg) : arg[i][1].viscosity # None
        /\ ret.val.thermal_conductivity # None <=>
               \A i \in 1..Len(arg) : arg[i][1].thermal_conductivity # None
        /\ ret.val.diffusion # None <=>
               \A i \in 1..Len(arg) : arg[i][1].diffusion # None
        /\ ret.val.diffusion # None => ret.val.diffusion = Some(<<0, 0, 0, 0, 0>>)

C26_Witness ==
    /\ op = "PcSaftRecord.from_segments(f64)"
    /\ Len(arg) = 2
    /\ arg[1][2] = 2 /\ arg[2][2] = 1
    /\ arg[1][1].diffusion # None /\ arg[2][1].diffusion # None
    /\ arg[1][1].viscosity # None /\ arg[2][1].viscosity = None
    /\ ret.val.diffusion = Some(<<0, 0, 0, 0, 0>>)
    /\ ret.val.viscosity = None

(***************************************************************************)
(* C22: from_records gives the viscosity table iff every component record  *)
(* has viscosity coefficients, and likewise, each on its own, the          *)
(* diffusion and the thermal conductivity table; a table that is present   *)
(* has one column per component with that component's coefficients, in     *)
(* component order.                                                        *)
(***************************************************************************)
TableOf(table, given, rows) ==
    /\ table # None <=> \A i \in 1..Len(given) : given[i] # None
    /\ table # None =>
           /\ table[1].shape = <<rows, Len(given)>>
           /\ Len(table[1].columns) = Len(given)
           /\ \A i \in 1..Len(given) :
                  /\ table[1].columns[i] = given[i][1]
                  /\ Len(table[1].columns[i]) = rows

C22_CoefficientTables ==
    op = "PcSaftParameters.from_records" =>
        /\ ret.ok
        /\ TableOf(ret.val.viscosity,
                   [i \in 1..Len(arg) |-> arg[i].model_record.viscosity], 4)
        /\ TableOf(ret.val.diffusion,
                   [i \in 1..Len(arg) |-> arg[i].model_record.diffusion], 5)
        /\ TableOf(ret.val.thermal_conductivity,
                   [i \in 1..Len(arg) |-> arg[i].model_record.thermal_conductivity], 4)

C22_Witness ==
    /\ op = "PcSaftParameters.from_records"
    /\ Len(arg) = 2
    /\ arg[1].model_record # arg[2].model_record
    /\ ret.val.viscosity # None
    /\ ret.val.viscosity[1].columns[2] = arg[2].model_record.viscosity[1]
    /\ ret.val.diffusion = None
    /\ arg[2].model_record.diffusion # None

====
